---- MODULE Spec2Model ----
(***************************************************************************)
(* tPhotowall: the photo cache / prefetch pipeline of the renderer.        *)
(*                                                                         *)
(* The index-addressed PhotoCache (src/unnamed/part_001) is modelled as a  *)
(* state machine whose steps are the macrotasks of the renderer's event    *)
(* loop: one call of a public method of the cache up to its first real     *)
(* suspension point, or the completion of one load (the image probe's      *)
(* onload/onerror, or the last await of loadHEICImage) together with the   *)
(* promise reactions that run in the same microtask checkpoint.            *)
(*                                                                         *)
(* The PhotoSlideshow controller of the same file drives the cache from    *)
(* the folder dialog, the folder watcher, the keyboard, the slide timer    *)
(* and the interval and random-order controls.  Its steps are modelled for *)
(* a session without a startup folder.                                     *)
(*                                                                         *)
(* Specifications of their own cover the awaits of loadHEICImage together  *)
(* with the 'convert-heic' handler of src/main.js, getImageFiles of        *)
(* src/main.js, and the rotating-queue PhotoCache and PhotoSlideshow of    *)
(* src/renderer.js.                                                        *)
(***************************************************************************)
EXTENDS Integers, Sequences, FiniteSets, Bags, TLC

\* ------------------------------------------------------------- bounds ---
\* Total number of loads (loadPhoto calls that reach a suspension point)
\* in one behaviour; load ids double as the serial number of blob URLs.
MaxLoads == 2
\* Date.now() takes the values 0..MaxTime.
MaxTime == 1
\* CONSTANTS.CACHE_SIZE_LIMIT of the source is 200 (part_001 line 7); the
\* model scales it down so that the over-limit case is reachable.
CACHE_SIZE_LIMIT == 1
\* refresh prefetches newFiles.slice(0, 10) (part_001 line 52); scaled down.
PREFETCH_BATCH == 1
\* At most this many updatePhotoDisplay calls wait for a load, and at most
\* this many display probes (testImg) are undecided, at any time.
MaxPending == 2
\* At most this many indices are drawn by nextRandomPhoto within one step.
MaxDraws == 2
\* At most this many entries in a folder that getImageFiles lists.
MaxFiles == 3
\* CONSTANTS.VISIBLE_PHOTOS of src/renderer.js is 6 (line 8); scaled down.
VISIBLE_PHOTOS == 2
\* A chain of nextPhoto calls, each made by the failure of the probe of
\* the one before, is followed up to this many calls.
MaxChain == 3

\* ------------------------------------------------------------- inputs ---
\* The file names a folder listing can hold, in the order Array.sort gives.
PathList == <<"a.jpg", "b.HEIC", "c.png">>
Paths == {PathList[i] : i \in 1..Len(PathList)}

\* The text after the last '.' of each path (filePath.split('.').pop()).
PathExt(p) ==
    CASE p = "a.jpg" -> "jpg"
      [] p = "b.HEIC" -> "HEIC"
      [] p = "c.png" -> "png"

ToLowerCase(s) ==
    CASE s = "HEIC" -> "heic"
      [] s = "HEIF" -> "heif"
      [] OTHER -> s

HEIC_EXTENSIONS == {".heic", ".heif"}

isHeicFile(filePath) ==
    LET extension == "." \o ToLowerCase(PathExt(filePath))
    IN  extension \in HEIC_EXTENSIONS

\* What getImageFiles can return for a non-empty listing: a sorted list of
\* distinct paths.
PhotoLists ==
    {SelectSeq(PathList, LAMBDA p : p \in S) : S \in (SUBSET Paths) \ {{}}}

Range(s) == {s[i] : i \in 1..Len(s)}

\* Array.prototype.indexOf, counted from 1.
PositionIn(list, p) == CHOOSE i \in 1..Len(list) : list[i] = p

\* The listings of a folder whose files come and go at the end of the sort
\* order, the empty folder included.
PrefixLists == {SubSeq(PathList, 1, n) : n \in 0..Len(PathList)}

\* --------------------------------------------------------------- state ---
VARIABLES
    cache,              \* PhotoCache.cache: a Map, kept in insertion order
    loadingPromises,    \* PhotoCache.loadingPromises: path -> load id
    heicSupportCache,   \* PhotoCache.heicSupportCache: "null", "true", "false"
    loads,              \* loadPhoto calls suspended at an await: {[id, path]}
    revoked,            \* URL.revokeObjectURL calls received, per blob serial
    nextId,             \* serial of the next load / blob URL
    now,                \* Date.now()
    lastOp,             \* the step the cache's user of Spec just took, with
                        \* its arguments
    refreshed,          \* newPhotoPaths of the latest refresh of the cache
                        \* user of Spec while only load completions followed
                        \* it; <<>> otherwise
    created,            \* the blob serials URL.createObjectURL has handed
                        \* out to the loads of the cache user of Spec
    photos,             \* PhotoSlideshow.photos
    currentIndex,       \* PhotoSlideshow.currentIndex
    isPlaying,          \* PhotoSlideshow.isPlaying
    slideInterval,      \* PhotoSlideshow.slideInterval: "null" or "timer"
    timers,             \* the number of setInterval timers not yet cleared
    isRandomOrder,      \* PhotoSlideshow.isRandomOrder
    playedIndices,      \* PhotoSlideshow.playedIndices
    draws,              \* the indices nextRandomPhoto drew in the step just
                        \* taken, in order
    controlsDisabled,   \* playPauseBtn/prevBtn/nextBtn.disabled
    currentPhotoSrc,    \* currentPhoto.src
    currentPhotoDisplay,\* currentPhoto.style.display
    welcomeDisplay,     \* welcomeMessage.style.display
    loadingDisplay,     \* loadingMessage.style.display
    probes,             \* the bag of testImg.src whose onload/onerror is due
    displayCalls,       \* updatePhotoDisplay calls awaiting a load, in order
    selecting,          \* selectFolder awaits the folder dialog
    watching,           \* the main process watches a folder
    hung,               \* the microtask queue never drains: renderer frozen
    queue,              \* PhotoCache.queue of src/renderer.js
    stages,             \* load id -> the await at which its loadHEICImage
                        \* call is suspended, once past fetch
    conversions,        \* the 'convert-heic' requests the main process
                        \* has received
    directory           \* the folder getImageFiles is asked to list

cacheVars == <<cache, loadingPromises, heicSupportCache, loads, revoked,
               nextId, now, lastOp, refreshed, created>>

ctlVars == <<photos, currentIndex, isPlaying, slideInterval, timers,
             isRandomOrder,
             playedIndices, draws, controlsDisabled,
             currentPhotoSrc, currentPhotoDisplay, welcomeDisplay,
             loadingDisplay, probes, displayCalls, selecting, watching, hung>>

\* State of the parts that are modelled in specifications of their own.
auxVars == <<queue, stages, conversions, directory>>

vars == <<cacheVars, ctlVars, auxVars>>

\* ----------------------------------------------------------- handles ---
FileUrl(photoPath) == [scheme |-> "file", path |-> photoPath, id |-> 0]
BlobUrl(n) == [scheme |-> "blob", path |-> "", id |-> n]
StartsWithBlob(url) == url.scheme = "blob"

\* The part of the program state the cache's methods read and write.
World ==
    [cache |-> cache, loadingPromises |-> loadingPromises, loads |-> loads,
     revoked |-> revoked, nextId |-> nextId]

Apply(w) ==
    /\ cache' = w.cache
    /\ loadingPromises' = w.loadingPromises
    /\ loads' = w.loads
    /\ revoked' = w.revoked
    /\ nextId' = w.nextId

CachePaths(w) == {w.cache[i].path : i \in 1..Len(w.cache)}
CacheHas(w, photoPath) == photoPath \in CachePaths(w)
CacheIndex(w, photoPath) ==
    CHOOSE i \in 1..Len(w.cache) : w.cache[i].path = photoPath
CacheGet(w, photoPath) == w.cache[CacheIndex(w, photoPath)]

\* Map.set: a present key keeps its place, a new key goes last.
CacheSet(c, entry) ==
    IF \E i \in 1..Len(c) : c[i].path = entry.path
    THEN [i \in 1..Len(c) |-> IF c[i].path = entry.path THEN entry ELSE c[i]]
    ELSE Append(c, entry)

\* URL.revokeObjectURL for every blob handle among the entries at indices I.
RevokeAll(w, I) ==
    [h \in DOMAIN w.revoked |->
        w.revoked[h] + Cardinality({i \in I : /\ StartsWithBlob(w.cache[i].url)
                                              /\ w.cache[i].url.id = h})]

MapDelete(m, k) == [x \in (DOMAIN m) \ {k} |-> m[x]]
MapSet(m, k, v) == [x \in (DOMAIN m) \cup {k} |-> IF x = k THEN v ELSE m[x]]

\* ------------------------------------------------------- load outcomes ---
NoUrl == [scheme |-> "none", path |-> "", id |-> 0]
\* What a getPhoto caller receives: the handle, the Error object of the load
\* that threw it (named by the load's serial; 0 for the synchronous throw of
\* loadPhoto), or a promise still pending on load id.
Resolved(url) == [kind |-> "ok", url |-> url, id |-> 0]
Rejected(n) == [kind |-> "fail", url |-> NoUrl, id |-> n]
Pending(n) == [kind |-> "pending", url |-> NoUrl, id |-> n]
NoOutcome == [kind |-> "none", url |-> NoUrl, id |-> 0]

\* The blob serials a step from world w to world v passed to
\* URL.revokeObjectURL.
Released(w, v) == {h \in DOMAIN w.revoked : v.revoked[h] > w.revoked[h]}

\* A step as an observer of the renderer sees it: the method that ran, its
\* argument, what it handed back and which blob URLs it revoked.
Op(name, path, list, out, released) ==
    [name |-> name, path |-> path, list |-> list, out |-> out,
     released |-> released]

\* ------------------------------------------------------------ getPhoto ---
\* Mutant: loadPhoto tests heicSupportCache !== false, so that the flag not
\* yet probed (null) lets a HEIC load through.
LoadSuspends_UnlessFalse(photoPath) ==
    ~(isHeicFile(photoPath) /\ heicSupportCache = "false")

\* loadPhoto reaches an await unless it throws 'HEIC support not available'
\* first; the rejection then settles in the same microtask checkpoint.
LoadSuspends(photoPath) ==
    ~(isHeicFile(photoPath) /\ heicSupportCache # "true")

\* loadPhoto(photoPath) started and registered in loadingPromises.
StartLoad(w, photoPath) ==
    [w EXCEPT !.loads = @ \cup {[id |-> w.nextId, path |-> photoPath,
                                 peerOut |-> {}]},
              !.loadingPromises = MapSet(@, photoPath, w.nextId),
              !.nextId = @ + 1]

\* Mutant: a resident hit hands back the handle without touching
\* lastAccessed.
getPhoto_NoTouch(w, photoPath) ==
    IF CacheHas(w, photoPath)
    THEN w
    ELSE IF photoPath \in DOMAIN w.loadingPromises
    THEN w
    ELSE IF ~(isHeicFile(photoPath) /\ heicSupportCache # "true")
    THEN StartLoad(w, photoPath)
    ELSE w

getPhoto(w, photoPath) ==
    IF CacheHas(w, photoPath)
    THEN [w EXCEPT !.cache[CacheIndex(w, photoPath)].lastAccessed = now]
    ELSE IF photoPath \in DOMAIN w.loadingPromises
    THEN w
    ELSE IF ~LoadSuspends(photoPath)
    THEN w
    ELSE StartLoad(w, photoPath)

\* The value (or promise) the same call hands back to its caller.
getPhotoResult(w, photoPath) ==
    IF CacheHas(w, photoPath)
    THEN Resolved(CacheGet(w, photoPath).url)
    ELSE IF photoPath \in DOMAIN w.loadingPromises
    THEN Pending(w.loadingPromises[photoPath])
    ELSE IF ~LoadSuspends(photoPath)
    THEN Rejected(0)
    ELSE Pending(w.nextId)

RECURSIVE preloadPhotos(_, _)
preloadPhotos(w, photoPaths) ==
    IF photoPaths = <<>>
    THEN w
    ELSE preloadPhotos(getPhoto(w, Head(photoPaths)), Tail(photoPaths))

\* -------------------------------------------------------- cleanupCache ---
\* Array.prototype.sort with (a, b) => a.lastAccessed - b.lastAccessed is
\* stable: entries of equal lastAccessed keep the Map's insertion order.
RECURSIVE InsertByLastAccessed(_, _)
InsertByLastAccessed(sorted, e) ==
    IF sorted = <<>>
    THEN <<e>>
    ELSE IF sorted[Len(sorted)].lastAccessed <= e.lastAccessed
    THEN Append(sorted, e)
    ELSE Append(InsertByLastAccessed(SubSeq(sorted, 1, Len(sorted) - 1), e),
                sorted[Len(sorted)])

\* Mutant: the comparator is b.lastAccessed - a.lastAccessed.
RECURSIVE InsertNewestFirst(_, _)
InsertNewestFirst(sorted, e) ==
    IF sorted = <<>>
    THEN <<e>>
    ELSE IF sorted[Len(sorted)].lastAccessed >= e.lastAccessed
    THEN Append(sorted, e)
    ELSE Append(InsertNewestFirst(SubSeq(sorted, 1, Len(sorted) - 1), e),
                sorted[Len(sorted)])

RECURSIVE SortNewestFirst(_)
SortNewestFirst(entries) ==
    IF entries = <<>>
    THEN <<>>
    ELSE InsertNewestFirst(
             SortNewestFirst(SubSeq(entries, 1, Len(entries) - 1)),
             entries[Len(entries)])

RECURSIVE SortByLastAccessed(_)
SortByLastAccessed(entries) ==
    IF entries = <<>>
    THEN <<>>
    ELSE InsertByLastAccessed(
             SortByLastAccessed(SubSeq(entries, 1, Len(entries) - 1)),
             entries[Len(entries)])

\* Mutant: entries.slice(-n)
SliceLast(s, n) ==
    SubSeq(s, IF n < Len(s) THEN Len(s) - n + 1 ELSE 1, Len(s))

\* entries.slice(0, n)
Slice(s, n) == SubSeq(s, 1, IF n < Len(s) THEN n ELSE Len(s))

cleanupCache(w) ==
    IF Len(w.cache) <= CACHE_SIZE_LIMIT
    THEN w
    ELSE LET entries == SortByLastAccessed(w.cache)
             toRemove == Slice(entries, Len(entries) - CACHE_SIZE_LIMIT)
             gone == {i \in 1..Len(w.cache) : w.cache[i].path \in
                         {toRemove[j].path : j \in 1..Len(toRemove)}}
         IN  [w EXCEPT !.revoked = RevokeAll(w, gone),
                       !.cache = SelectSeq(w.cache, LAMBDA e :
                           e.path \notin {w.cache[i].path : i \in gone})]

\* ------------------------------------------------------------- refresh ---
\* Mutant: the loop revokes the blob URL but forgets cache.delete(path).
RemoveDeleted_KeepsEntry(w, newPhotoPaths) ==
    LET newPaths == Range(newPhotoPaths)
        gone == {i \in 1..Len(w.cache) : w.cache[i].path \notin newPaths}
    IN  [w EXCEPT !.revoked = RevokeAll(w, gone)]

\* Mutant: the loop deletes the entry but forgets URL.revokeObjectURL.
RemoveDeleted_NoRevoke(w, newPhotoPaths) ==
    LET newPaths == Range(newPhotoPaths)
    IN  [w EXCEPT !.cache = SelectSeq(w.cache, LAMBDA e : e.path \in newPaths)]

\* The first loop of refresh: revoke and delete every resident path that is
\* not in newPhotoPaths.
RemoveDeleted(w, newPhotoPaths) ==
    LET newPaths == Range(newPhotoPaths)
        gone == {i \in 1..Len(w.cache) : w.cache[i].path \notin newPaths}
    IN  [w EXCEPT !.revoked = RevokeAll(w, gone),
                  !.cache = SelectSeq(w.cache, LAMBDA e : e.path \in newPaths)]

refresh(w, newPhotoPaths) ==
    LET currentPaths == CachePaths(w)
        w1 == RemoveDeleted(w, newPhotoPaths)
        newFiles == SelectSeq(newPhotoPaths, LAMBDA p : p \notin currentPaths)
        w2 == IF Len(newFiles) > 0
              THEN preloadPhotos(w1, Slice(newFiles, PREFETCH_BATCH))
              ELSE w1
    IN  cleanupCache(w2)

\* --------------------------------------------------------------- clear ---
\* Mutant: clear empties both maps but forgets URL.revokeObjectURL.
clear_NoRevoke(w) ==
    [w EXCEPT !.cache = <<>>, !.loadingPromises = <<>>]

clear(w) ==
    [w EXCEPT !.revoked = RevokeAll(w, 1..Len(w.cache)),
              !.cache = <<>>,
              !.loadingPromises = <<>>]

\* ------------------------------------------------------ load completion ---
\* The handle a successful load of photoPath resolves with.
LoadedUrl(l) ==
    IF isHeicFile(l.path) THEN BlobUrl(l.id) ELSE FileUrl(l.path)

\* Mutant: the entry is stored before the loader is awaited, so that a
\* failed load leaves an entry behind.
settle_StoresOnFailure(w, l, ok) ==
    [w EXCEPT !.cache = CacheSet(@, [path |-> l.path,
                                     url |-> LoadedUrl(l),
                                     isHeic |-> isHeicFile(l.path),
                                     lastAccessed |-> now]),
              !.loadingPromises = MapDelete(@, l.path),
              !.loads = {[m EXCEPT !.peerOut =
                             IF m.path = l.path
                             THEN @ \cup {IF ok THEN Resolved(LoadedUrl(l))
                                                ELSE Rejected(l.id)}
                             ELSE @] :
                         m \in w.loads \ {l}}]

\* Mutant: preloadPhotos awaits Promise.all of the batch, so that one failure
\* abandons every other load in flight.
settle_FailureDropsLoads(w, l, ok) ==
    IF ok
    THEN [w EXCEPT !.cache = CacheSet(@, [path |-> l.path,
                                          url |-> LoadedUrl(l),
                                          isHeic |-> isHeicFile(l.path),
                                          lastAccessed |-> now]),
                   !.loadingPromises = MapDelete(@, l.path),
                   !.loads = {[m EXCEPT !.peerOut =
                                  IF m.path = l.path
                                  THEN @ \cup {Resolved(LoadedUrl(l))}
                                  ELSE @] :
                              m \in w.loads \ {l}}]
    ELSE [w EXCEPT !.loadingPromises = <<>>, !.loads = {}]

\* loadPhoto resumes after its loader settled: on success it stores the
\* entry; then the getPhoto call that started it runs its finally block.
settle(w, l, ok) ==
    LET out == IF ok THEN Resolved(LoadedUrl(l)) ELSE Rejected(l.id)
        stored == IF ok
                  THEN CacheSet(w.cache, [path |-> l.path,
                                          url |-> LoadedUrl(l),
                                          isHeic |-> isHeicFile(l.path),
                                          lastAccessed |-> now])
                  ELSE w.cache
    IN  [w EXCEPT !.cache = stored,
                  !.loadingPromises = MapDelete(@, l.path),
                  !.loads = {[m EXCEPT !.peerOut =
                                 IF m.path = l.path THEN @ \cup {out} ELSE @] :
                             m \in w.loads \ {l}}]

\* ------------------------------------------------------------- actions ---
\* new PhotoSlideshow(): no photo list, paused, no timer.  The page starts
\* with the welcome message shown, the photo and the loading message
\* hidden and the three buttons disabled.
InitSlideshow ==
    /\ photos = <<>>
    /\ currentIndex = 0
    /\ isPlaying = FALSE
    /\ slideInterval = "null"
    /\ timers = 0
    /\ isRandomOrder = FALSE
    /\ playedIndices = {}
    /\ draws = <<>>
    /\ controlsDisabled = TRUE
    /\ currentPhotoSrc = NoUrl
    /\ currentPhotoDisplay = "none"
    /\ welcomeDisplay = "block"
    /\ loadingDisplay = "none"
    /\ probes = EmptyBag
    /\ displayCalls = <<>>
    /\ selecting = FALSE
    /\ watching = FALSE
    /\ hung = FALSE

\* A folder as fs sees it: whether existsSync finds it, whether readdirSync
\* can read it, and the names readdirSync returns, in its order.
NoDirectory == [name |-> <<>>, exists |-> FALSE, readable |-> FALSE,
                files |-> <<>>]

InitAux ==
    /\ queue = <<>>
    /\ stages = <<>>
    /\ conversions = {}
    /\ directory = NoDirectory

Init ==
    /\ cache = <<>>
    /\ loadingPromises = <<>>
    /\ heicSupportCache = "null"
    /\ loads = {}
    /\ revoked = [h \in 1..MaxLoads |-> 0]
    /\ nextId = 1
    /\ now = 0
    /\ lastOp = Op("new", "", <<>>, NoOutcome, {})
    /\ refreshed = <<>>
    /\ created = {}
    /\ InitSlideshow
    /\ InitAux

\* initialize(): the probe answers true or false, or fails (then false).
Initialize ==
    /\ heicSupportCache = "null"
    /\ \E answer \in {"true", "false", "throws"} :
          heicSupportCache' = IF answer = "true" THEN "true" ELSE "false"
    /\ lastOp' = Op("initialize", "", <<>>, NoOutcome, {})
    /\ UNCHANGED <<cache, loadingPromises, loads, revoked, nextId, now,
                   refreshed>>
    /\ UNCHANGED <<created, ctlVars, auxVars>>

GetPhoto(photoPath) ==
    LET w == getPhoto(World, photoPath)
    IN  /\ w.nextId <= MaxLoads + 1
        /\ Apply(w)
        /\ lastOp' = Op("getPhoto", photoPath, <<>>,
                        getPhotoResult(World, photoPath), {})
        /\ refreshed' = <<>>
        /\ UNCHANGED <<heicSupportCache, now>>
        /\ UNCHANGED <<created, ctlVars, auxVars>>

Refresh(newPhotoPaths) ==
    LET w == refresh(World, newPhotoPaths)
    IN  /\ w.nextId <= MaxLoads + 1
        /\ Apply(w)
        /\ lastOp' = Op("refresh", "", newPhotoPaths, NoOutcome,
                        Released(World, w))
        /\ refreshed' = newPhotoPaths
        /\ UNCHANGED <<heicSupportCache, now>>
        /\ UNCHANGED <<created, ctlVars, auxVars>>

CleanupCache ==
    /\ Apply(cleanupCache(World))
    /\ lastOp' = Op("cleanupCache", "", <<>>, NoOutcome,
                    Released(World, cleanupCache(World)))
    /\ refreshed' = <<>>
    /\ UNCHANGED <<heicSupportCache, now>>
    /\ UNCHANGED <<created, ctlVars, auxVars>>

Clear ==
    /\ Apply(clear(World))
    /\ lastOp' = Op("clear", "", <<>>, NoOutcome,
                    Released(World, clear(World)))
    /\ refreshed' = <<>>
    /\ UNCHANGED <<heicSupportCache, now>>
    /\ UNCHANGED <<created, ctlVars, auxVars>>

LoadSettles(l, ok) ==
    /\ l \in loads
    /\ Apply(settle(World, l, ok))
    /\ lastOp' = Op("settle", l.path, <<>>,
                    IF ok THEN Resolved(LoadedUrl(l)) ELSE Rejected(l.id), {})
    /\ created' = IF ok /\ isHeicFile(l.path)
                  THEN created \cup {l.id}
                  ELSE created
    /\ UNCHANGED <<heicSupportCache, now, refreshed>>
    /\ UNCHANGED <<ctlVars, auxVars>>

Tick ==
    /\ now < MaxTime
    /\ now' = now + 1
    /\ UNCHANGED <<cache, loadingPromises, heicSupportCache, loads, revoked,
                   nextId, lastOp, refreshed>>
    /\ UNCHANGED <<created, ctlVars, auxVars>>

Next ==
    \/ Initialize
    \/ \E photoPath \in Paths : GetPhoto(photoPath)
    \/ \E newPhotoPaths \in PhotoLists : Refresh(newPhotoPaths)
    \/ CleanupCache
    \/ Clear
    \/ \E l \in loads, ok \in BOOLEAN : LoadSettles(l, ok)
    \/ Tick

Spec == Init /\ [][Next]_vars

\* ------------------------------------------------- loadHEICImage steps ---
\* The awaits of loadHEICImage, in order: fetch, response.arrayBuffer,
\* electronAPI.convertHeic and canvas.toBlob.
StageOf(l) == IF l.id \in DOMAIN stages THEN stages[l.id] ELSE "fetch"

\* The sizes a file can have: empty or not.
ByteLengths == {0, 1}

\* Mutant: the byteLength test is missing.
EmptyFile_Never(byteLength) == FALSE

\* arrayBuffer.byteLength === 0
EmptyFile(byteLength) == byteLength = 0

\* The 'convert-heic' handler of the main process up to its await: decode
\* is synchronous and either throws, finds no image or invalid dimensions
\* (all rethrown as 'HEIC conversion failed'), or the handler arms the 30 s
\* timer and asks libheif to display the image.
convertHeicHandler(id, byteLength, decoded) ==
    [id |-> id, byteLength |-> byteLength,
     outcome |-> IF decoded THEN "pending" ELSE "fail",
     timer |-> IF decoded THEN "armed" ELSE "none",
     calledBack |-> FALSE, delivered |-> FALSE]

\* Mutant: a promise that could be settled again.
settleDisplay_Overwrites(conv, outcome) == [conv EXCEPT !.outcome = outcome]

\* resolve() or reject() of the handler's promise: only the first call
\* settles it.
settleDisplay(conv, outcome) ==
    IF conv.outcome = "pending"
    THEN [conv EXCEPT !.outcome = outcome]
    ELSE conv

\* loadHEICImage of load l throws: loadPhoto rethrows, nothing is stored
\* and getPhoto's finally block removes the marker.
HeicLoadFails(l, message) ==
    /\ Apply(settle(World, l, FALSE))
    /\ stages' = MapDelete(stages, l.id)
    /\ lastOp' = Op("loadHEICImage", l.path, <<message>>, Rejected(l.id), {})
    /\ UNCHANGED <<heicSupportCache, now, refreshed, created>>
    /\ UNCHANGED <<ctlVars, queue, directory>>

HeicLoadMoves(l, stage) ==
    /\ stages' = MapSet(stages, l.id, stage)
    /\ UNCHANGED cacheVars
    /\ UNCHANGED <<ctlVars, queue, directory>>

\* fetch(fileUrl) answers.
FetchResponds(l, ok) ==
    /\ l \in loads /\ isHeicFile(l.path) /\ StageOf(l) = "fetch"
    /\ IF ok
       THEN HeicLoadMoves(l, "arrayBuffer")
       ELSE HeicLoadFails(l, "Failed to fetch HEIC file")
    /\ UNCHANGED conversions

\* response.arrayBuffer() delivers the bytes; a non-empty buffer is sent
\* to the main process, whose handler starts on it.
ArrayBufferRead(l, byteLength, decoded) ==
    /\ l \in loads /\ StageOf(l) = "arrayBuffer"
    /\ IF EmptyFile(byteLength)
       THEN /\ HeicLoadFails(l, "HEIC file is empty")
            /\ UNCHANGED conversions
       ELSE /\ HeicLoadMoves(l, "convertHeic")
            /\ conversions' = conversions \cup
                   {convertHeicHandler(l.id, byteLength, decoded)}

\* libheif calls the display callback, with or without displayData.
DisplayCallback(conv, displayData) ==
    /\ conv \in conversions
    /\ conv.timer # "none" /\ ~conv.calledBack
    /\ conversions' = (conversions \ {conv}) \cup
          {settleDisplay([conv EXCEPT !.calledBack = TRUE,
                                      !.timer = IF @ = "armed"
                                                THEN "cleared" ELSE @],
                         IF displayData THEN "ok" ELSE "fail")}
    /\ UNCHANGED <<cacheVars, ctlVars, queue, stages, directory>>

\* The 30 s timer of the handler fires: reject('HEIC conversion timeout').
ConversionTimeout(conv) ==
    /\ conv \in conversions
    /\ conv.timer = "armed"
    /\ conversions' = (conversions \ {conv}) \cup
          {settleDisplay([conv EXCEPT !.timer = "fired"], "fail")}
    /\ UNCHANGED <<cacheVars, ctlVars, queue, stages, directory>>

\* The handler's answer reaches the renderer: the load goes on to
\* canvas.toBlob, or convertHeic rejects and loadHEICImage throws.
ConvertReplies(conv) ==
    /\ conv \in conversions
    /\ conv.outcome # "pending" /\ ~conv.delivered
    /\ conversions' = (conversions \ {conv}) \cup
          {[conv EXCEPT !.delivered = TRUE]}
    /\ \E l \in loads :
          /\ l.id = conv.id
          /\ IF conv.outcome = "ok"
             THEN HeicLoadMoves(l, "toBlob")
             ELSE HeicLoadFails(l, "HEIC conversion failed")

\* canvas.toBlob calls back: URL.createObjectURL(blob) makes the handle the
\* load resolves with (and throws for the null blob of a failed encoding).
ToBlobDone(l, blob) ==
    /\ l \in loads /\ StageOf(l) = "toBlob"
    /\ IF blob
       THEN /\ Apply(settle(World, l, TRUE))
            /\ created' = created \cup {l.id}
            /\ stages' = MapDelete(stages, l.id)
            /\ lastOp' = Op("loadHEICImage", l.path, <<>>,
                            Resolved(LoadedUrl(l)), {})
            /\ UNCHANGED <<heicSupportCache, now, refreshed>>
            /\ UNCHANGED <<ctlVars, queue, directory>>
       ELSE HeicLoadFails(l, "createObjectURL")
    /\ UNCHANGED conversions

NextHeic ==
    \/ Initialize
    \/ \E photoPath \in Paths : GetPhoto(photoPath)
    \/ Clear
    \/ \E l \in loads, ok \in BOOLEAN : ~isHeicFile(l.path) /\ LoadSettles(l, ok)
    \/ \E l \in loads, ok \in BOOLEAN : FetchResponds(l, ok)
    \/ \E l \in loads, byteLength \in ByteLengths, decoded \in BOOLEAN :
          ArrayBufferRead(l, byteLength, decoded)
    \/ \E conv \in conversions, displayData \in BOOLEAN :
          DisplayCallback(conv, displayData)
    \/ \E conv \in conversions : ConversionTimeout(conv)
    \/ \E conv \in conversions : ConvertReplies(conv)
    \/ \E l \in loads, blob \in BOOLEAN : ToBlobDone(l, blob)

SpecHeic == Init /\ [][NextHeic]_vars

\* ------------------------------------------------------- getImageFiles ---
\* Strings of the main process are sequences of characters here, so that
\* extname, toLowerCase, join and sort work on them as in the source.
IMAGE_EXTENSIONS ==
    {<<".", "j", "p", "g">>, <<".", "j", "p", "e", "g">>,
     <<".", "p", "n", "g">>, <<".", "g", "i", "f">>, <<".", "b", "m", "p">>,
     <<".", "w", "e", "b", "p">>, <<".", "h", "e", "i", "c">>,
     <<".", "h", "e", "i", "f">>}

\* The entries a folder can hold: images with lower and upper case
\* extensions, a text file, a dot file and a name without extension.
FileNames ==
    {<<"a", ".", "j", "p", "g">>, <<"B", ".", "P", "N", "G">>,
     <<"c", ".", "g", "i", "f">>, <<"n", ".", "t", "x", "t">>,
     <<".", "p", "n", "g">>, <<"j", "p", "g">>}

\* The UTF-16 code unit of each character in use.
CharCode(ch) ==
    CASE ch = "." -> 46 [] ch = "/" -> 47
      [] ch = "B" -> 66 [] ch = "G" -> 71 [] ch = "N" -> 78 [] ch = "P" -> 80
      [] ch = "a" -> 97 [] ch = "b" -> 98 [] ch = "c" -> 99 [] ch = "d" -> 100
      [] ch = "e" -> 101 [] ch = "f" -> 102 [] ch = "g" -> 103
      [] ch = "h" -> 104 [] ch = "i" -> 105 [] ch = "j" -> 106
      [] ch = "m" -> 109 [] ch = "n" -> 110 [] ch = "p" -> 112
      [] ch = "t" -> 116 [] ch = "w" -> 119 [] ch = "x" -> 120

\* String.prototype.toLowerCase, character by character.
CharToLowerCase(ch) ==
    CASE ch = "B" -> "b" [] ch = "G" -> "g" [] ch = "N" -> "n"
      [] ch = "P" -> "p" [] OTHER -> ch

StringToLowerCase(str) == [i \in 1..Len(str) |-> CharToLowerCase(str[i])]

\* path.extname: from the last '.' to the end; empty when there is no '.'
\* or when the only one is the first character of the name.
extname(file) ==
    LET dots == {i \in 1..Len(file) : file[i] = "."}
        last == CHOOSE i \in dots : \A j \in dots : j <= i
    IN  IF dots = {} \/ last = 1
        THEN <<>>
        ELSE SubSeq(file, last, Len(file))

\* Mutant: the filter compares the extension as it is spelled.
isImageFile_CaseSensitive(file) == extname(file) \in IMAGE_EXTENSIONS

\* The filter callback of getImageFiles.
isImageFile(file) == StringToLowerCase(extname(file)) \in IMAGE_EXTENSIONS

\* path.join(directory, file)
pathJoin(dir, file) == dir \o <<"/">> \o file

\* The default comparison of Array.prototype.sort: by code units, a proper
\* prefix first.
RECURSIVE StringLess(_, _)
StringLess(x, y) ==
    IF x = <<>> THEN y # <<>>
    ELSE IF y = <<>> THEN FALSE
    ELSE IF CharCode(Head(x)) # CharCode(Head(y))
    THEN CharCode(Head(x)) < CharCode(Head(y))
    ELSE StringLess(Tail(x), Tail(y))

RECURSIVE InsertSorted(_, _)
InsertSorted(sorted, str) ==
    IF sorted = <<>>
    THEN <<str>>
    ELSE IF StringLess(str, Head(sorted))
    THEN <<str>> \o sorted
    ELSE <<Head(sorted)>> \o InsertSorted(Tail(sorted), str)

RECURSIVE ArraySort(_)
ArraySort(strs) ==
    IF strs = <<>>
    THEN <<>>
    ELSE InsertSorted(ArraySort(Tail(strs)), Head(strs))

\* Array.prototype.map with file => path.join(directory, file)
MapJoin(dir, files) == [i \in 1..Len(files) |-> pathJoin(dir, files[i])]

getImageFiles(dir) ==
    IF ~dir.exists
    THEN <<>>
    ELSE IF ~dir.readable
    THEN <<>>
    ELSE ArraySort(MapJoin(dir.name, SelectSeq(dir.files, isImageFile)))

\* The listings readdirSync can return: distinct names in any order.
Listings ==
    {l \in UNION {[1..n -> FileNames] : n \in 0..MaxFiles} :
        \A i, j \in 1..Len(l) : l[i] = l[j] => i = j}

\* A folder that is missing, one that cannot be read, and the readable
\* folders.
Directories ==
    {[name |-> <<"d">>, exists |-> FALSE, readable |-> FALSE, files |-> <<>>],
     [name |-> <<"d">>, exists |-> TRUE, readable |-> FALSE, files |-> <<>>]}
    \cup {[name |-> <<"d">>, exists |-> TRUE, readable |-> TRUE, files |-> l] :
             l \in Listings}

InitList ==
    /\ cache = <<>>
    /\ loadingPromises = <<>>
    /\ heicSupportCache = "null"
    /\ loads = {}
    /\ revoked = [h \in 1..MaxLoads |-> 0]
    /\ nextId = 1
    /\ now = 0
    /\ lastOp = Op("new", "", <<>>, NoOutcome, {})
    /\ refreshed = <<>>
    /\ created = {}
    /\ InitSlideshow
    /\ queue = <<>>
    /\ stages = <<>>
    /\ conversions = {}
    /\ directory \in Directories

\* 'get-photos', the folder dialog or the watcher calls getImageFiles.
GetImageFiles ==
    /\ lastOp' = Op("getImageFiles", "", getImageFiles(directory),
                    NoOutcome, {})
    /\ UNCHANGED <<cache, loadingPromises, heicSupportCache, loads, revoked,
                   nextId, now, refreshed, created>>
    /\ UNCHANGED <<ctlVars, auxVars>>

NextList == GetImageFiles

SpecList == InitList /\ [][NextList]_vars

\* ------------------------------------------- cleanupCache on any cache ---
\* Every content the resident Map can have when no load is in flight:
\* distinct paths in any insertion order, any timestamps up to now, a file
\* URL for a native image and an unreleased blob URL for a HEIC one.
UrlsOf(p) ==
    IF isHeicFile(p) THEN {BlobUrl(n) : n \in 1..MaxLoads} ELSE {FileUrl(p)}

Entries ==
    {[path |-> p, url |-> u, isHeic |-> isHeicFile(p), lastAccessed |-> t] :
        p \in Paths, u \in UNION {UrlsOf(q) : q \in Paths}, t \in 0..MaxTime}

CacheContents ==
    {c \in UNION {[1..n -> Entries] : n \in 0..Len(PathList)} :
        /\ \A i \in 1..Len(c) : c[i].url \in UrlsOf(c[i].path)
        /\ \A i, j \in 1..Len(c) : c[i].path = c[j].path => i = j}

InitCleanup ==
    /\ now \in 0..MaxTime
    /\ cache \in {c \in CacheContents :
                     \A i \in 1..Len(c) : c[i].lastAccessed <= now}
    /\ heicSupportCache \in
          {x \in {"null", "true", "false"} :
              (\E i \in 1..Len(cache) : cache[i].isHeic) => x = "true"}
    /\ loadingPromises = <<>>
    /\ loads = {}
    /\ revoked = [h \in 1..MaxLoads |-> 0]
    /\ nextId = MaxLoads + 1
    /\ lastOp = Op("new", "", <<>>, NoOutcome, {})
    /\ refreshed = <<>>
    /\ created = {}
    /\ InitSlideshow
    /\ InitAux

NextCleanup == CleanupCache

SpecCleanup == InitCleanup /\ [][NextCleanup]_vars

\* ------------------------------------- rotating queue (src/renderer.js) ---
\* The PhotoCache of src/renderer.js keeps an array `queue` of {path, url}
\* instead of a Map.  Its loadingPromises, its loads and its HEIC flag
\* (heicSupport) are held in the variables of the same role above.
QueueWorld ==
    [queue |-> queue, loadingPromises |-> loadingPromises, loads |-> loads,
     revoked |-> revoked, nextId |-> nextId, threw |-> FALSE]

ApplyQueue(w) ==
    /\ queue' = w.queue
    /\ loadingPromises' = w.loadingPromises
    /\ loads' = w.loads
    /\ revoked' = w.revoked
    /\ nextId' = w.nextId

QueuePaths(w) == {w.queue[i].path : i \in 1..Len(w.queue)}

\* Mutant: getNextPhoto takes the head off without pushing it back.
getNextPhoto_NoPush(w) ==
    IF w.queue # <<>> THEN [w EXCEPT !.queue = Tail(@)] ELSE w

\* getNextPhoto: queue.shift(), then queue.push of what was shifted.
getNextPhoto(w) ==
    IF w.queue # <<>>
    THEN [w EXCEPT !.queue = Append(Tail(@), Head(@))]
    ELSE w

\* nextPhoto?.url
getNextPhotoResult(w) ==
    IF w.queue # <<>> THEN Resolved(Head(w.queue).url) ELSE NoOutcome

\* Mutant: a path whose load is running is loaded once more.
loadPhotoToFrontOfQueue_NoMarker(w, photoPath) ==
    IF ~LoadSuspends(photoPath) THEN w ELSE StartLoad(w, photoPath)

\* loadPhotoToFrontOfQueue up to its await: a running load of the path is
\* joined, a HEIC path without HEIC support is rejected at once (and the
\* finally block removes the marker just set), anything else starts a load.
loadPhotoToFrontOfQueue(w, photoPath) ==
    IF photoPath \in DOMAIN w.loadingPromises
    THEN w
    ELSE IF ~LoadSuspends(photoPath)
    THEN w
    ELSE StartLoad(w, photoPath)

RECURSIVE queuePreloadPhotos(_, _)
queuePreloadPhotos(w, photoPaths) ==
    IF photoPaths = <<>>
    THEN w
    ELSE queuePreloadPhotos(loadPhotoToFrontOfQueue(w, Head(photoPaths)),
                            Tail(photoPaths))

\* refresh of the rotating queue.  The loop over the queue names `path` and
\* `cached`, which are not defined there: for the first entry whose path is
\* not in newPhotoPaths the console.log call throws a ReferenceError before
\* anything is revoked, and refresh rejects.  Otherwise every entry goes to
\* newQ, which is never assigned to queue, and all new paths are preloaded.
queueRefresh(w, newPhotoPaths) ==
    LET newPaths == Range(newPhotoPaths)
        currentPaths == QueuePaths(w)
        newFiles == SelectSeq(newPhotoPaths, LAMBDA p : p \notin currentPaths)
    IN  IF \E i \in 1..Len(w.queue) : w.queue[i].path \notin newPaths
        THEN [w EXCEPT !.threw = TRUE]
        ELSE IF Len(newFiles) > 0
        THEN queuePreloadPhotos(w, newFiles)
        ELSE w

\* URL.revokeObjectURL for every blob handle in the queue.
RevokeQueue(w) ==
    [h \in DOMAIN w.revoked |->
        w.revoked[h] + Cardinality({i \in 1..Len(w.queue) :
                                       /\ StartsWithBlob(w.queue[i].url)
                                       /\ w.queue[i].url.id = h})]

queueClear(w) ==
    [w EXCEPT !.revoked = RevokeQueue(w),
              !.queue = <<>>,
              !.loadingPromises = <<>>]

\* loadPhotoToFrontOfQueue resumes: queue.unshift on success, then the
\* finally block deletes the marker of the path.
queueSettle(w, l, ok) ==
    [w EXCEPT !.queue = IF ok
                        THEN <<[path |-> l.path, url |-> LoadedUrl(l)]>> \o @
                        ELSE @,
              !.loadingPromises = MapDelete(@, l.path),
              !.loads = @ \ {l}]

QueueRefresh(newPhotoPaths) ==
    LET w == queueRefresh(QueueWorld, newPhotoPaths)
    IN  /\ w.nextId <= MaxLoads + 1
        /\ ApplyQueue(w)
        /\ lastOp' = Op("refresh", "", newPhotoPaths,
                        IF w.threw THEN Rejected(0) ELSE NoOutcome,
                        Released(QueueWorld, w))
        /\ refreshed' = newPhotoPaths
        /\ UNCHANGED <<cache, heicSupportCache, now, created>>
        /\ UNCHANGED <<ctlVars, stages, conversions, directory>>

QueueClear ==
    /\ ApplyQueue(queueClear(QueueWorld))
    /\ lastOp' = Op("clear", "", <<>>, NoOutcome,
                    Released(QueueWorld, queueClear(QueueWorld)))
    /\ refreshed' = <<>>
    /\ UNCHANGED <<cache, heicSupportCache, now, created>>
    /\ UNCHANGED <<ctlVars, stages, conversions, directory>>

GetNextPhoto ==
    /\ ApplyQueue(getNextPhoto(QueueWorld))
    /\ lastOp' = Op("getNextPhoto", "", <<>>,
                    getNextPhotoResult(QueueWorld), {})
    /\ refreshed' = <<>>
    /\ UNCHANGED <<cache, heicSupportCache, now, created>>
    /\ UNCHANGED <<ctlVars, stages, conversions, directory>>

QueueLoadSettles(l, ok) ==
    /\ l \in loads
    /\ ApplyQueue(queueSettle(QueueWorld, l, ok))
    /\ lastOp' = Op("settle", l.path, <<>>,
                    IF ok THEN Resolved(LoadedUrl(l)) ELSE Rejected(l.id), {})
    /\ UNCHANGED <<cache, heicSupportCache, now, refreshed, created>>
    /\ UNCHANGED <<ctlVars, stages, conversions, directory>>

NextQueue ==
    \/ Initialize
    \/ \E newPhotoPaths \in PhotoLists : QueueRefresh(newPhotoPaths)
    \/ QueueClear
    \/ GetNextPhoto
    \/ \E l \in loads, ok \in BOOLEAN : QueueLoadSettles(l, ok)

SpecQueue == Init /\ [][NextQueue]_vars

\* getNextPhoto on every queue of up to three entries, entries of the same
\* path included.
QueueEntries ==
    {[path |-> p, url |-> u] : p \in Paths, u \in UNION {UrlsOf(q) : q \in Paths}}

QueueContents ==
    {c \in UNION {[1..n -> QueueEntries] : n \in 0..Len(PathList)} :
        \A i \in 1..Len(c) : c[i].url \in UrlsOf(c[i].path)}

InitRotate ==
    /\ cache = <<>>
    /\ loadingPromises = <<>>
    /\ heicSupportCache = "true"
    /\ loads = {}
    /\ revoked = [h \in 1..MaxLoads |-> 0]
    /\ nextId = MaxLoads + 1
    /\ now = 0
    /\ lastOp = Op("new", "", <<>>, NoOutcome, {})
    /\ refreshed = <<>>
    /\ created = {}
    /\ InitSlideshow
    /\ queue \in QueueContents
    /\ stages = <<>>
    /\ conversions = {}
    /\ directory = NoDirectory

NextRotate == GetNextPhoto

SpecRotate == InitRotate /\ [][NextRotate]_vars

\* ------------------------------------------------ slideshow controller ---
\* The state the controller's methods read and write, cache included.
\* picks are the indices Math.random will make nextRandomPhoto accept in
\* this step, drawn the ones it has accepted so far; short says that the
\* step needed a draw that picks does not offer.
Slideshow ==
    [cache |-> cache, loadingPromises |-> loadingPromises, loads |-> loads,
     revoked |-> revoked, nextId |-> nextId,
     photos |-> photos, currentIndex |-> currentIndex,
     isPlaying |-> isPlaying, slideInterval |-> slideInterval,
     timers |-> timers,
     isRandomOrder |-> isRandomOrder, playedIndices |-> playedIndices,
     picks |-> <<>>, drawn |-> <<>>, short |-> FALSE,
     controlsDisabled |-> controlsDisabled,
     currentPhotoSrc |-> currentPhotoSrc,
     currentPhotoDisplay |-> currentPhotoDisplay,
     welcomeDisplay |-> welcomeDisplay, loadingDisplay |-> loadingDisplay,
     probes |-> probes, displayCalls |-> displayCalls, hung |-> hung]

ApplySlideshow(c) ==
    /\ Apply(c)
    /\ photos' = c.photos
    /\ currentIndex' = c.currentIndex
    /\ isPlaying' = c.isPlaying
    /\ slideInterval' = c.slideInterval
    /\ timers' = c.timers
    /\ isRandomOrder' = c.isRandomOrder
    /\ playedIndices' = c.playedIndices
    /\ draws' = c.drawn
    /\ controlsDisabled' = c.controlsDisabled
    /\ currentPhotoSrc' = c.currentPhotoSrc
    /\ currentPhotoDisplay' = c.currentPhotoDisplay
    /\ welcomeDisplay' = c.welcomeDisplay
    /\ loadingDisplay' = c.loadingDisplay
    /\ probes' = c.probes
    /\ displayCalls' = c.displayCalls
    /\ hung' = c.hung

\* The caps of the model on loads, waiting display calls and probes.
WithinBounds(c) ==
    /\ c.nextId <= MaxLoads + 1
    /\ Len(c.displayCalls) <= MaxPending
    /\ BagCardinality(c.probes) <= MaxPending

showWelcomeMessage(c) ==
    [c EXCEPT !.currentPhotoDisplay = "none", !.welcomeDisplay = "block"]

showLoading(c, show) ==
    IF show
    THEN [c EXCEPT !.loadingDisplay = "block", !.welcomeDisplay = "none",
                   !.currentPhotoDisplay = "none"]
    ELSE [c EXCEPT !.loadingDisplay = "none"]

\* pauseSlideshow: clearInterval only if slideInterval holds a handle.
pauseSlideshow(c) ==
    IF c.slideInterval # "null"
    THEN [c EXCEPT !.isPlaying = FALSE, !.slideInterval = "null",
                   !.timers = @ - 1]
    ELSE [c EXCEPT !.isPlaying = FALSE]

\* startSlideshow without its early return on an empty photo list.
startSlideshow_NoGuard(c) ==
    [c EXCEPT !.isPlaying = TRUE, !.slideInterval = "timer",
              !.timers = @ + 1]

\* startSlideshow: setInterval makes a new timer and slideInterval is
\* overwritten with its handle.
startSlideshow(c) ==
    IF Len(c.photos) = 0
    THEN c
    ELSE [c EXCEPT !.isPlaying = TRUE, !.slideInterval = "timer",
                   !.timers = @ + 1]

togglePlayPause(c) ==
    IF c.isPlaying THEN pauseSlideshow(c) ELSE startSlideshow(c)

\* Mutant: updateInterval starts the new timer without pausing first.
updateInterval_NoPause(c) ==
    IF c.isPlaying THEN startSlideshow(c) ELSE c

\* updateInterval: the change handler of the interval select.
updateInterval(c) ==
    IF c.isPlaying THEN startSlideshow(pauseSlideshow(c)) ELSE c

enableControls(c) == [c EXCEPT !.controlsDisabled = FALSE]

\* disableControls without its call of pauseSlideshow.
disableControls_KeepsPlaying(c) == [c EXCEPT !.controlsDisabled = TRUE]

disableControls(c) == pauseSlideshow([c EXCEPT !.controlsDisabled = TRUE])

\* displayCachedPhoto: a fresh Image is pointed at imageUrl; its onload or
\* onerror runs in a later task.
displayCachedPhoto(c, imageUrl) ==
    [c EXCEPT !.probes = @ (+) SetToBag({imageUrl})]

\* What runs when an awaited updatePhotoDisplay() returns: nothing more for
\* nextPhoto/previousPhoto, enableControls for updatePhotoList, and
\* enableControls followed by the finally block for selectFolder.
Resume(c, then) ==
    CASE then = "nextPhoto" -> c
      [] then = "updatePhotoList" -> enableControls(c)
      [] then = "selectFolder" -> showLoading(enableControls(c), FALSE)

\* nextRandomPhoto without the do-while condition: the first draw is taken.
nextRandomPhoto_AnyIndex(c) ==
    LET played == IF Cardinality(c.playedIndices) >= Len(c.photos)
                  THEN {}
                  ELSE c.playedIndices
    IN  IF \/ c.picks = <<>>
           \/ Head(c.picks) \notin 0..(Len(c.photos) - 1)
        THEN [c EXCEPT !.short = TRUE]
        ELSE [c EXCEPT !.currentIndex = Head(c.picks),
                       !.playedIndices = played \cup {Head(c.picks)},
                       !.drawn = Append(@, Head(c.picks)),
                       !.picks = Tail(@)]

\* nextRandomPhoto: the do-while loop draws until the index is not in
\* playedIndices, which it emptied first if every index had been played.
nextRandomPhoto(c) ==
    LET played == IF Cardinality(c.playedIndices) >= Len(c.photos)
                  THEN {}
                  ELSE c.playedIndices
    IN  IF \/ c.picks = <<>>
           \/ Head(c.picks) \notin (0..(Len(c.photos) - 1)) \ played
        THEN [c EXCEPT !.short = TRUE]
        ELSE [c EXCEPT !.currentIndex = Head(c.picks),
                       !.playedIndices = played \cup {Head(c.picks)},
                       !.drawn = Append(@, Head(c.picks)),
                       !.picks = Tail(@)]

\* Every photo of the list fails at once with 'HEIC support not available'.
AllFailAtOnce(c) ==
    \A i \in 1..Len(c.photos) : getPhotoResult(c, c.photos[i]).kind = "fail"

\* updatePhotoDisplay called by `then`.  skips counts the calls that failed
\* before this one without any suspension in between: the catch block calls
\* nextPhoto, and when every photo of the list throws 'HEIC support not
\* available' the calls chase each other in the microtask queue for ever.
\* A step that ran short of draws is not continued.
RECURSIVE updatePhotoDisplay(_, _, _)
RECURSIVE nextPhoto(_, _)
updatePhotoDisplay(c, then, skips) ==
    IF c.short
    THEN c
    ELSE IF Len(c.photos) = 0
    THEN Resume(showWelcomeMessage(c), then)
    ELSE LET photoPath == c.photos[c.currentIndex + 1]
             out == getPhotoResult(c, photoPath)
             c1 == getPhoto(c, photoPath)
         IN  CASE out.kind = "ok" ->
                    Resume(displayCachedPhoto(c1, out.url), then)
               [] out.kind = "pending" ->
                    [c1 EXCEPT !.displayCalls =
                        Append(@, [load |-> out.id, then |-> then])]
               [] out.kind = "fail" ->
                    IF IF c.isRandomOrder
                       THEN AllFailAtOnce(c)
                       ELSE skips + 1 >= Len(c.photos)
                    THEN Resume([c1 EXCEPT !.hung = TRUE], then)
                    ELSE Resume(nextPhoto(c1, skips + 1), then)

nextPhoto(c, skips) ==
    IF Len(c.photos) = 0
    THEN c
    ELSE IF c.isRandomOrder
    THEN updatePhotoDisplay(nextRandomPhoto(c), "nextPhoto", skips)
    ELSE updatePhotoDisplay(
             [c EXCEPT !.currentIndex = (@ + 1) % Len(c.photos)],
             "nextPhoto", skips)

\* Mutant: previousPhoto stops at index 0 instead of wrapping.
previousPhoto_NoWrap(c) ==
    IF Len(c.photos) = 0
    THEN c
    ELSE IF c.isRandomOrder
    THEN updatePhotoDisplay(nextRandomPhoto(c), "nextPhoto", 0)
    ELSE updatePhotoDisplay(
             [c EXCEPT !.currentIndex = IF @ > 0 THEN @ - 1 ELSE 0],
             "nextPhoto", 0)

previousPhoto(c) ==
    IF Len(c.photos) = 0
    THEN c
    ELSE IF c.isRandomOrder
    THEN updatePhotoDisplay(nextRandomPhoto(c), "nextPhoto", 0)
    ELSE updatePhotoDisplay(
             [c EXCEPT !.currentIndex =
                 IF @ > 0 THEN @ - 1 ELSE Len(c.photos) - 1],
             "nextPhoto", 0)

\* selectFolder after the dialog returned result.photos (the empty list
\* only raises an alert).
selectFolder(c, resultPhotos) ==
    IF Len(resultPhotos) > 0
    THEN LET c1 == [c EXCEPT !.photos = resultPhotos, !.currentIndex = 0,
                             !.playedIndices = {0}]
         IN  updatePhotoDisplay(refresh(c1, c1.photos), "selectFolder", 0)
    ELSE showLoading(c, FALSE)

\* updatePhotoList without the else branch that clamps currentIndex.
updatePhotoList_NoClamp(c, newPhotos) ==
    LET wasEmpty == Len(c.photos) = 0
        c1 == [c EXCEPT !.photos = newPhotos]
    IN  IF Len(c1.photos) = 0
        THEN clear(showWelcomeMessage(disableControls(c1)))
        ELSE LET c2 == refresh(c1, c1.photos)
             IN  IF wasEmpty
                 THEN updatePhotoDisplay([c2 EXCEPT !.currentIndex = 0,
                                                    !.playedIndices = {0}],
                                         "updatePhotoList", 0)
                 ELSE c2

updatePhotoList(c, newPhotos) ==
    LET wasEmpty == Len(c.photos) = 0
        c1 == [c EXCEPT !.photos = newPhotos]
    IN  IF Len(c1.photos) = 0
        THEN clear(showWelcomeMessage(disableControls(c1)))
        ELSE LET c2 == refresh(c1, c1.photos)
             IN  IF wasEmpty
                 THEN updatePhotoDisplay([c2 EXCEPT !.currentIndex = 0,
                                                    !.playedIndices = {0}],
                                         "updatePhotoList", 0)
                 ELSE IF c2.currentIndex >= Len(c2.photos)
                 THEN [c2 EXCEPT !.currentIndex = Len(c2.photos) - 1]
                 ELSE c2

\* The updatePhotoDisplay calls that awaited the settled load resume in the
\* order they were made: displayCachedPhoto on success, nextPhoto on failure.
RECURSIVE resumeDisplayCalls(_, _, _, _)
resumeDisplayCalls(c, calls, imageUrl, ok) ==
    IF calls = <<>>
    THEN c
    ELSE LET then == Head(calls).then
             c1 == IF ok
                   THEN Resume(displayCachedPhoto(c, imageUrl), then)
                   ELSE Resume(nextPhoto(c, 0), then)
         IN  resumeDisplayCalls(c1, Tail(calls), imageUrl, ok)

settleSlideshow(c, l, ok) ==
    LET c1 == settle(c, l, ok)
        mine == SelectSeq(c1.displayCalls, LAMBDA dc : dc.load = l.id)
        c2 == [c1 EXCEPT !.displayCalls =
                   SelectSeq(@, LAMBDA dc : dc.load # l.id)]
    IN  resumeDisplayCalls(c2, mine, LoadedUrl(l), ok)

\* testImg.onload
probeLoaded(c, imageUrl) ==
    [c EXCEPT !.probes = @ (-) SetToBag({imageUrl}),
              !.currentPhotoSrc = imageUrl,
              !.currentPhotoDisplay = "block",
              !.welcomeDisplay = "none"]

\* testImg.onerror
probeFailed(c, imageUrl) ==
    nextPhoto([c EXCEPT !.probes = @ (-) SetToBag({imageUrl})], 0)

\* The change handler of the random-order checkbox.
toggleRandomOrder(c) ==
    IF c.isRandomOrder
    THEN [c EXCEPT !.isRandomOrder = FALSE]
    ELSE [c EXCEPT !.isRandomOrder = TRUE,
                   !.playedIndices = {c.currentIndex}]

\* What Math.random can make the nextRandomPhoto calls of one step accept.
Draws ==
    IF isRandomOrder
    THEN UNION {[1..n -> 0..(Len(PathList) - 1)] : n \in 0..MaxDraws}
    ELSE {<<>>}

Drawing(picks) == [Slideshow EXCEPT !.picks = picks]

\* One controller step: the renderer is responsive, the step stays within
\* the caps and made exactly the draws it was offered.
Step(c) ==
    /\ ~hung
    /\ WithinBounds(c)
    /\ ~c.short
    /\ c.picks = <<>>
    /\ ApplySlideshow(c)
    /\ UNCHANGED <<heicSupportCache, now, lastOp, refreshed, created>>
    /\ UNCHANGED auxVars

\* The select-folder button or Ctrl+F: showLoading(true), then the modal
\* folder dialog opens.
SelectFolderClick ==
    /\ ~selecting
    /\ Step(showLoading(Slideshow, TRUE))
    /\ selecting' = TRUE
    /\ UNCHANGED watching

\* The dialog was cancelled: result is null.
SelectFolderCanceled ==
    /\ selecting
    /\ Step(showLoading(Slideshow, FALSE))
    /\ selecting' = FALSE
    /\ UNCHANGED watching

\* A folder was chosen: the main process lists it and starts watching it.
SelectFolderResult(resultPhotos) ==
    /\ selecting
    /\ \E picks \in Draws :
          Step(selectFolder(Drawing(picks), resultPhotos))
    /\ selecting' = FALSE
    /\ watching' = TRUE

\* 'photos-updated' from the folder watcher.
UpdatePhotoList(newPhotos) ==
    /\ watching
    /\ \E picks \in Draws :
          Step(updatePhotoList(Drawing(picks), newPhotos))
    /\ UNCHANGED <<selecting, watching>>

\* The next button or ArrowRight.
NextPhoto ==
    /\ \E picks \in Draws : Step(nextPhoto(Drawing(picks), 0))
    /\ UNCHANGED <<selecting, watching>>

\* The previous button or ArrowLeft.
PreviousPhoto ==
    /\ \E picks \in Draws : Step(previousPhoto(Drawing(picks)))
    /\ UNCHANGED <<selecting, watching>>

\* The play/pause button or Space.
TogglePlayPause ==
    /\ Step(togglePlayPause(Slideshow))
    /\ UNCHANGED <<selecting, watching>>

\* The interval select is changed.
UpdateInterval ==
    /\ Step(updateInterval(Slideshow))
    /\ UNCHANGED <<selecting, watching>>

\* The setInterval callback of startSlideshow, for any timer not cleared.
TimerFires ==
    /\ timers > 0
    /\ \E picks \in Draws : Step(nextPhoto(Drawing(picks), 0))
    /\ UNCHANGED <<selecting, watching>>

\* The random-order checkbox is clicked.
ToggleRandomOrder ==
    /\ Step(toggleRandomOrder(Slideshow))
    /\ UNCHANGED <<selecting, watching>>

SlideshowLoadSettles(l, ok) ==
    /\ l \in loads
    /\ \E picks \in Draws : Step(settleSlideshow(Drawing(picks), l, ok))
    /\ UNCHANGED <<selecting, watching>>

ProbeLoads(imageUrl) ==
    /\ BagIn(imageUrl, probes)
    /\ Step(probeLoaded(Slideshow, imageUrl))
    /\ UNCHANGED <<selecting, watching>>

ProbeFails(imageUrl) ==
    /\ BagIn(imageUrl, probes)
    /\ \E picks \in Draws : Step(probeFailed(Drawing(picks), imageUrl))
    /\ UNCHANGED <<selecting, watching>>

NextCtl ==
    \/ ~hung /\ Initialize
    \/ SelectFolderClick
    \/ SelectFolderCanceled
    \/ \E resultPhotos \in PrefixLists :
          SelectFolderResult(resultPhotos)
    \/ \E newPhotos \in PrefixLists : UpdatePhotoList(newPhotos)
    \/ NextPhoto
    \/ PreviousPhoto
    \/ TogglePlayPause
    \/ UpdateInterval
    \/ TimerFires
    \/ \E l \in loads, ok \in BOOLEAN : SlideshowLoadSettles(l, ok)
    \/ \E imageUrl \in BagToSet(probes) : ProbeLoads(imageUrl)
    \/ \E imageUrl \in BagToSet(probes) : ProbeFails(imageUrl)
    \/ ~hung /\ Tick

SpecCtl == Init /\ [][NextCtl]_vars

\* The same session with the random-order checkbox in use, within one
\* tick of the clock and before the main process has answered the HEIC
\* support probe.
NextRandom ==
    \/ SelectFolderClick
    \/ SelectFolderCanceled
    \/ \E resultPhotos \in PrefixLists : SelectFolderResult(resultPhotos)
    \/ \E newPhotos \in PrefixLists : UpdatePhotoList(newPhotos)
    \/ NextPhoto
    \/ PreviousPhoto
    \/ TogglePlayPause
    \/ TimerFires
    \/ ToggleRandomOrder
    \/ \E l \in loads, ok \in BOOLEAN : SlideshowLoadSettles(l, ok)
    \/ \E imageUrl \in BagToSet(probes) : ProbeLoads(imageUrl)
    \/ \E imageUrl \in BagToSet(probes) : ProbeFails(imageUrl)

SpecRandom == Init /\ [][NextRandom]_vars

\* A paused session in sequential order that has a folder of two or more
\* photos loaded, some of its native photos resident and one of them on
\* display; the folder does not change any more.
ShownEntries ==
    {c \in CacheContents :
        /\ Len(c) >= 1
        /\ \A i \in 1..Len(c) : ~c[i].isHeic /\ c[i].lastAccessed = 0
        /\ \A i, j \in 1..Len(c) :
              i < j => PositionIn(PathList, c[i].path)
                           < PositionIn(PathList, c[j].path)}

InitSkip ==
    /\ photos \in {l \in PhotoLists : Len(l) >= 2}
    /\ cache \in {c \in ShownEntries :
                     \A i \in 1..Len(c) : c[i].path \in Range(photos)}
    /\ currentIndex \in 0..(Len(photos) - 1)
    /\ currentPhotoSrc \in {cache[i].url : i \in 1..Len(cache)}
    /\ heicSupportCache \in {"true", "false"}
    /\ loadingPromises = <<>>
    /\ loads = {}
    /\ revoked = [h \in 1..MaxLoads |-> 0]
    /\ nextId = 1
    /\ now = 0
    /\ lastOp = Op("new", "", <<>>, NoOutcome, {})
    /\ refreshed = <<>>
    /\ created = {}
    /\ InitAux
    /\ isPlaying = FALSE
    /\ slideInterval = "null"
    /\ timers = 0
    /\ isRandomOrder = FALSE
    /\ playedIndices = {0}
    /\ draws = <<>>
    /\ controlsDisabled = FALSE
    /\ currentPhotoDisplay = "block"
    /\ welcomeDisplay = "none"
    /\ loadingDisplay = "none"
    /\ probes = EmptyBag
    /\ displayCalls = <<>>
    /\ selecting = FALSE
    /\ watching = TRUE
    /\ hung = FALSE

NextSkip ==
    \/ NextPhoto
    \/ PreviousPhoto
    \/ TogglePlayPause
    \/ TimerFires
    \/ \E l \in loads, ok \in BOOLEAN : SlideshowLoadSettles(l, ok)
    \/ \E imageUrl \in BagToSet(probes) : ProbeLoads(imageUrl)
    \/ \E imageUrl \in BagToSet(probes) : ProbeFails(imageUrl)

SpecSkip == InitSkip /\ [][NextSkip]_vars

\* ------------------------------------- rotating-queue controller ---
\* The PhotoSlideshow of src/renderer.js shows VISIBLE_PHOTOS images side
\* by side and takes each next one from the rotating queue.  Its fields
\* are held in the variables of the same role above: photoGrid's display
\* style in currentPhotoDisplay, the src of the image slot written last in
\* currentPhotoSrc.  A display probe is a record of the URL given to
\* testImg.src (NoUrl for undefined) and of the number of nextPhoto calls
\* in the chain that made it.
QueueSlideshow ==
    [queue |-> queue, loadingPromises |-> loadingPromises, loads |-> loads,
     revoked |-> revoked, nextId |-> nextId, threw |-> FALSE,
     currentIndex |-> currentIndex, isPlaying |-> isPlaying,
     slideInterval |-> slideInterval, timers |-> timers,
     controlsDisabled |-> controlsDisabled,
     currentPhotoSrc |-> currentPhotoSrc,
     currentPhotoDisplay |-> currentPhotoDisplay,
     welcomeDisplay |-> welcomeDisplay, loadingDisplay |-> loadingDisplay,
     probes |-> probes]

ApplyQueueSlideshow(c) ==
    /\ ApplyQueue(c)
    /\ currentIndex' = c.currentIndex
    /\ isPlaying' = c.isPlaying
    /\ slideInterval' = c.slideInterval
    /\ timers' = c.timers
    /\ controlsDisabled' = c.controlsDisabled
    /\ currentPhotoSrc' = c.currentPhotoSrc
    /\ currentPhotoDisplay' = c.currentPhotoDisplay
    /\ welcomeDisplay' = c.welcomeDisplay
    /\ loadingDisplay' = c.loadingDisplay
    /\ probes' = c.probes
    /\ UNCHANGED <<cache, heicSupportCache, now, lastOp, refreshed, created>>
    /\ UNCHANGED <<photos, isRandomOrder, playedIndices, draws,
                   displayCalls, hung>>
    /\ UNCHANGED <<stages, conversions, directory>>

\* One step of the rotating-queue controller, within the caps on loads
\* and on undecided probes.
QueueStep(c) ==
    /\ c.nextId <= MaxLoads + 1
    /\ BagCardinality(c.probes) <= MaxPending
    /\ ApplyQueueSlideshow(c)

\* startSlideshow of src/renderer.js: no test of the queue or of a folder.
queueStartSlideshow(c) ==
    [c EXCEPT !.isPlaying = TRUE, !.slideInterval = "timer",
              !.timers = @ + 1]

queueTogglePlayPause(c) ==
    IF c.isPlaying THEN pauseSlideshow(c) ELSE queueStartSlideshow(c)

queueUpdateInterval(c) ==
    IF c.isPlaying THEN queueStartSlideshow(pauseSlideshow(c)) ELSE c

\* displayCachedPhoto: a fresh Image is pointed at imageUrl; its onload or
\* onerror runs in a later task.
queueDisplayCachedPhoto(c, imageUrl, chain) ==
    [c EXCEPT !.probes = @ (+) SetToBag({[url |-> imageUrl,
                                          chain |-> chain]})]

\* nextPhoto: getNextPhoto() hands back undefined for an empty queue, and
\* displayCachedPhoto is called with whatever it handed back.  Nothing in
\* displayCachedPhoto throws, so the catch block does not run.
queueNextPhoto(c, chain) ==
    queueDisplayCachedPhoto(getNextPhoto(c),
                            IF c.queue # <<>> THEN Head(c.queue).url
                                              ELSE NoUrl,
                            chain)

\* for (i < VISIBLE_PHOTOS) await this.nextPhoto(): nextPhoto suspends
\* nowhere, so the calls run in one task.
RECURSIVE queueNextPhotoTimes(_, _)
queueNextPhotoTimes(c, n) ==
    IF n = 0 THEN c ELSE queueNextPhotoTimes(queueNextPhoto(c, 1), n - 1)

\* updatePhotoList of src/renderer.js; refresh does not wait for the
\* loads it starts.
queueUpdatePhotoList(c, newPhotos) ==
    IF Len(newPhotos) = 0
    THEN queueClear(showWelcomeMessage(disableControls(c)))
    ELSE LET c1 == queueRefresh(c, newPhotos)
         IN  IF c1.threw
             THEN c1
             ELSE [c1 EXCEPT !.currentPhotoDisplay = "flex"]

\* selectFolder after the dialog returned a folder: a refresh that throws
\* is caught (alert), the finally block hides the loading message.
queueSelectFolder(c, resultPhotos) ==
    LET c1 == queueUpdatePhotoList(enableControls(c), resultPhotos)
    IN  showLoading(IF c1.threw
                    THEN c1
                    ELSE queueNextPhotoTimes(c1, VISIBLE_PHOTOS),
                    FALSE)

\* testImg.onload
queueProbeLoaded(c, probe) ==
    [c EXCEPT !.probes = @ (-) SetToBag({probe}),
              !.currentPhotoSrc = probe.url,
              !.welcomeDisplay = "none",
              !.currentIndex = (@ + 1) % VISIBLE_PHOTOS]

\* testImg.onerror: nextPhoto is called again.
queueProbeFailed(c, probe) ==
    queueNextPhoto([c EXCEPT !.probes = @ (-) SetToBag({probe})],
                   probe.chain + 1)

\* The select-folder button or Ctrl+F.
QueueSelectFolderClick ==
    /\ ~selecting
    /\ QueueStep(showLoading(QueueSlideshow, TRUE))
    /\ selecting' = TRUE
    /\ UNCHANGED watching

\* The dialog was cancelled: result is null, enableControls() has run when
\* result.photos throws a TypeError, which is caught.
QueueSelectFolderCanceled ==
    /\ selecting
    /\ QueueStep(showLoading(enableControls(QueueSlideshow), FALSE))
    /\ selecting' = FALSE
    /\ UNCHANGED watching

QueueSelectFolderResult(resultPhotos) ==
    /\ selecting
    /\ QueueStep(queueSelectFolder(QueueSlideshow, resultPhotos))
    /\ selecting' = FALSE
    /\ watching' = TRUE

\* 'photos-updated' from the folder watcher; a refresh that throws leaves
\* an unhandled rejection.
QueueUpdatePhotoList(newPhotos) ==
    /\ watching
    /\ QueueStep(queueUpdatePhotoList(QueueSlideshow, newPhotos))
    /\ UNCHANGED <<selecting, watching>>

\* handleKeyboard, case 'Space'.
KeySpace ==
    /\ QueueStep(queueTogglePlayPause(QueueSlideshow))
    /\ UNCHANGED <<selecting, watching>>

\* handleKeyboard, case 'ArrowRight'.
KeyArrowRight ==
    /\ QueueStep(queueNextPhoto(QueueSlideshow, 1))
    /\ UNCHANGED <<selecting, watching>>

\* A click on the play/pause button, which a disabled button does not
\* deliver.
PlayPauseClick ==
    /\ ~controlsDisabled
    /\ QueueStep(queueTogglePlayPause(QueueSlideshow))
    /\ UNCHANGED <<selecting, watching>>

\* A click on the next button.
NextClick ==
    /\ ~controlsDisabled
    /\ QueueStep(queueNextPhoto(QueueSlideshow, 1))
    /\ UNCHANGED <<selecting, watching>>

QueueUpdateInterval ==
    /\ QueueStep(queueUpdateInterval(QueueSlideshow))
    /\ UNCHANGED <<selecting, watching>>

\* The setInterval callback of startSlideshow, for any timer not cleared.
QueueTimerFires ==
    /\ timers > 0
    /\ QueueStep(queueNextPhoto(QueueSlideshow, 1))
    /\ UNCHANGED <<selecting, watching>>

\* Only a probe of a real URL can load.
QueueProbeLoads(probe) ==
    /\ BagIn(probe, probes)
    /\ probe.url # NoUrl
    /\ QueueStep(queueProbeLoaded(QueueSlideshow, probe))
    /\ UNCHANGED <<selecting, watching>>

\* A probe fails: of undefined always, of a real URL possibly.  Chains of
\* nextPhoto calls are followed up to MaxChain calls.
QueueProbeFails(probe) ==
    /\ BagIn(probe, probes)
    /\ probe.chain < MaxChain
    /\ QueueStep(queueProbeFailed(QueueSlideshow, probe))
    /\ UNCHANGED <<selecting, watching>>

NextKeys ==
    \/ Initialize
    \/ QueueSelectFolderClick
    \/ QueueSelectFolderCanceled
    \/ \E resultPhotos \in PrefixLists :
          QueueSelectFolderResult(resultPhotos)
    \/ \E newPhotos \in PrefixLists : QueueUpdatePhotoList(newPhotos)
    \/ KeySpace
    \/ KeyArrowRight
    \/ PlayPauseClick
    \/ NextClick
    \/ QueueUpdateInterval
    \/ QueueTimerFires
    \/ \E l \in loads, ok \in BOOLEAN : QueueLoadSettles(l, ok)
    \/ \E probe \in BagToSet(probes) : QueueProbeLoads(probe)
    \/ \E probe \in BagToSet(probes) : QueueProbeFails(probe)

SpecKeys == Init /\ [][NextKeys]_vars

\* ================================================================ claims ===
InFlight(photoPath) == {l \in loads : l.path = photoPath}
Resident == {cache[i].path : i \in 1..Len(cache)}
Quiescent == loads = {}

\* C1: while a load of a non-resident path P is in flight, further
\* getPhoto(P) calls (foreground or prefetch) start no second loadPhoto(P):
\* no step adds a load of P to the loads in flight.
C1_OneLoadPerBurst ==
    [][\A p \in Paths :
          (InFlight(p) # {} /\ p \notin Resident)
              => {l \in loads' : l.path = p} \subseteq InFlight(p)]_vars

\* C2: in every reachable state at most one load is active (started and not
\* yet settled) for any single path.
C2_AtMostOneActiveLoadPerPath ==
    \A l, m \in loads : l.path = m.path => l = m

\* C3: all getPhoto(P) callers that overlap the same in-flight load of P
\* observe one and the same outcome: when a load of P settles, the outcome
\* its callers receive is the one every caller of a load of P that was in
\* flight alongside it has received.
C3_OverlappingCallersShareOutcome ==
    [][\A l \in loads :
          (lastOp'.name = "settle" /\ l.id \notin {m.id : m \in loads'})
              => l.peerOut \subseteq {lastOp'.out}]_vars

\* C4: the in-flight marker of a path exists exactly from the start of its
\* load until that load settles: a path has a marker if and only if a load
\* of it is in flight and the marker names that load (so the in-flight map
\* is empty once every load has settled), and a getPhoto of a non-resident
\* path without a load in flight never hands back an old failure.
C4_MarkerLifetime ==
    /\ [](\A p \in Paths :
             /\ p \in DOMAIN loadingPromises => InFlight(p) # {}
             /\ InFlight(p) # {} =>
                   /\ p \in DOMAIN loadingPromises
                   /\ \A l \in InFlight(p) : loadingPromises[p] = l.id)
    /\ [][(lastOp'.name = "getPhoto" /\ now' = now
           /\ lastOp'.path \notin Resident /\ InFlight(lastOp'.path) = {}
           /\ LoadSuspends(lastOp'.path))
              => /\ lastOp'.out = Pending(nextId)
                 /\ \E l \in loads' : l.id = nextId /\ l.path = lastOp'.path]_vars

\* C5: after refresh(newPaths), once every load has settled and no other
\* operation was issued, no resident path lies outside newPaths.
C5_RefreshConverges ==
    (refreshed # <<>> /\ Quiescent) => Resident \subseteq Range(refreshed)

\* C6: once all started loads have settled, the number of resident entries
\* is at most CACHE_SIZE_LIMIT.
C6_ResidentBound ==
    Quiescent => Len(cache) <= CACHE_SIZE_LIMIT

\* C7: no blob handle is released more than once; a step releases a handle
\* exactly when it removes the resident entry holding it, and then once; a
\* step that removes no entry releases nothing.
RemovedBlobs ==
    {cache[i].url.id : i \in {j \in 1..Len(cache) :
        /\ StartsWithBlob(cache[j].url)
        /\ cache[j].path \notin {cache'[k].path : k \in 1..Len(cache')}}}

C7_ReleasedExactlyOnce ==
    /\ [](\A h \in DOMAIN revoked : revoked[h] <= 1)
    /\ [][\A h \in DOMAIN revoked :
             revoked'[h] = revoked[h] + (IF h \in RemovedBlobs THEN 1 ELSE 0)]_vars

\* A clear() that finds a handle already released, and releases nothing.
C7_Witness ==
    /\ lastOp.name \in {"refresh", "cleanupCache", "clear"}
    /\ lastOp.released = {}
    /\ \E h \in DOMAIN revoked : revoked[h] = 1

\* C8: refresh, cleanupCache and clear release a blob handle only when no
\* display references it: no step releases a handle on which a display
\* probe is still undecided, or which the photo element showed before the
\* step and still shows after it.
Shown(imageUrl) ==
    currentPhotoSrc = imageUrl /\ currentPhotoDisplay = "block"

C8_ReleasedOnlyWhenUnreferenced ==
    [][\A h \in DOMAIN revoked :
          revoked'[h] > revoked[h] =>
              /\ ~BagIn(BlobUrl(h), probes)
              /\ ~(Shown(BlobUrl(h)) /\ Shown(BlobUrl(h))')]_vars

\* C9: when refresh(newPaths) returns, every path that was resident and is
\* absent from newPaths is gone from the resident map with its blob handle
\* released, and every resident entry whose path is in newPaths is there
\* with the same handle and timestamp unless cleanup evicted it (which
\* happens only when more than CACHE_SIZE_LIMIT entries stayed).
C9_RefreshFrame ==
    [][(lastOp'.name = "refresh" /\ now' = now) =>
          LET newPaths == Range(lastOp'.list)
              stay == {i \in 1..Len(cache) : cache[i].path \in newPaths}
          IN  /\ \A i \in (1..Len(cache)) \ stay :
                    /\ cache[i].path \notin Resident'
                    /\ StartsWithBlob(cache[i].url) =>
                          revoked'[cache[i].url.id] = revoked[cache[i].url.id] + 1
              /\ \A i \in stay :
                    \/ \E j \in 1..Len(cache') : cache'[j] = cache[i]
                    \/ /\ Cardinality(stay) > CACHE_SIZE_LIMIT
                       /\ cache[i].path \notin Resident']_vars

\* A refresh that released the blob of a deleted photo and kept an entry.
C9_Witness ==
    /\ lastOp.name = "refresh"
    /\ lastOp.released # {}
    /\ \E i \in 1..Len(cache) : cache[i].path \in Range(lastOp.list)

\* C10: cleanupCache changes nothing when at most CACHE_SIZE_LIMIT entries
\* are resident; otherwise it evicts exactly (count - limit) entries, none
\* of them accessed later than a retained one, releases each evicted blob
\* handle once, and leaves exactly CACHE_SIZE_LIMIT entries.
C10_CleanupEvictsOldest ==
    [][lastOp'.name = "cleanupCache" =>
          IF Len(cache) <= CACHE_SIZE_LIMIT
          THEN cache' = cache /\ revoked' = revoked
          ELSE LET evicted == {i \in 1..Len(cache) : cache[i].path \notin Resident'}
                   retained == (1..Len(cache)) \ evicted
               IN  /\ Cardinality(evicted) = Len(cache) - CACHE_SIZE_LIMIT
                   /\ Len(cache') = CACHE_SIZE_LIMIT
                   /\ \A j \in 1..Len(cache') : \E i \in retained : cache'[j] = cache[i]
                   /\ \A e \in evicted, r \in retained :
                         cache[e].lastAccessed <= cache[r].lastAccessed
                   /\ \A h \in DOMAIN revoked :
                         revoked'[h] = revoked[h] +
                             (IF \E e \in evicted : cache[e].url = BlobUrl(h)
                              THEN 1 ELSE 0)]_vars

\* A cleanup that cut an over-limit cache down to the limit and released a
\* blob handle on the way.
C10_Witness ==
    /\ lastOp.name = "cleanupCache"
    /\ lastOp.released # {}
    /\ Len(cache) = CACHE_SIZE_LIMIT

\* C11: when the load behind getPhoto(P) succeeds, P is resident with the
\* handle the callers receive and with the current time as timestamp, and
\* every entry of another path is as it was; when it fails, the callers
\* receive the error of that very load and the resident map is unchanged.
C11_LoadOutcomeStored ==
    [][\A l \in loads :
          l.id \notin {m.id : m \in loads'} =>
              IF lastOp'.out.kind = "ok"
              THEN /\ lastOp'.out.url = LoadedUrl(l)
                   /\ \E j \in 1..Len(cache') :
                         /\ cache'[j].path = l.path
                         /\ cache'[j].url = lastOp'.out.url
                         /\ cache'[j].lastAccessed = now'
                   /\ Resident' = Resident \cup {l.path}
                   /\ \A i \in 1..Len(cache) :
                         cache[i].path # l.path =>
                             \E j \in 1..Len(cache') : cache'[j] = cache[i]
              ELSE /\ lastOp'.out = Rejected(l.id)
                   /\ cache' = cache]_vars

\* A load that succeeded after the clock moved, next to another entry.
C11_Witness ==
    /\ lastOp.name = "settle"
    /\ lastOp.out.kind = "ok"
    /\ now = MaxTime
    /\ \E i, j \in 1..Len(cache) :
          /\ i # j
          /\ cache[i].path = lastOp.path
          /\ cache[i].lastAccessed = now
          /\ cache[j].lastAccessed < now

\* C12: getPhoto(P) for a resident P hands back the resident handle, starts
\* no load and registers no marker; the resident paths and every other
\* entry stay as they are, P keeps its handle, and no resident entry has a
\* later timestamp than P afterwards.
C12_ResidentHit ==
    [][(lastOp'.name = "getPhoto" /\ now' = now /\ lastOp'.path \in Resident)
          => LET i == CHOOSE k \in 1..Len(cache) : cache[k].path = lastOp'.path
             IN  /\ lastOp'.out = Resolved(cache[i].url)
                 /\ loads' = loads
                 /\ loadingPromises' = loadingPromises
                 /\ nextId' = nextId
                 /\ revoked' = revoked
                 /\ Len(cache') = Len(cache)
                 /\ \A k \in 1..Len(cache) : k # i => cache'[k] = cache[k]
                 /\ cache'[i].path = cache[i].path
                 /\ cache'[i].url = cache[i].url
                 /\ \A k \in 1..Len(cache') :
                       cache'[k].lastAccessed <= cache'[i].lastAccessed]_vars

\* A hit on an entry that was older than another one before the call.
C12_Witness ==
    /\ lastOp.name = "getPhoto"
    /\ lastOp.out.kind = "ok"
    /\ \E i, j \in 1..Len(cache) :
          /\ cache[i].path = lastOp.path
          /\ cache[i].lastAccessed > cache[j].lastAccessed
          /\ i < j

\* C13: when clear() returns, the resident map and the in-flight map are
\* empty and every blob handle that was resident has been released.
C13_ClearEmpties ==
    [][(lastOp'.name = "clear" /\ now' = now)
          => /\ cache' = <<>>
             /\ loadingPromises' = <<>>
             /\ \A i \in 1..Len(cache) :
                   StartsWithBlob(cache[i].url) =>
                       revoked'[cache[i].url.id] = revoked[cache[i].url.id] + 1]_vars

\* A clear() that released a blob handle while a load was in flight.
C13_Witness ==
    /\ lastOp.name = "clear"
    /\ lastOp.released # {}
    /\ loads # {}
    /\ cache = <<>>

\* C14: one refresh(newPaths) starts at most PREFETCH_BATCH loads (10 in the
\* source); they are loads of the first PREFETCH_BATCH paths of newPaths
\* that were not resident when the call began, started in list order, and
\* each of these paths has a load in flight afterwards unless its load
\* failed at once.
NewFiles(newPhotoPaths) ==
    SelectSeq(newPhotoPaths, LAMBDA p : p \notin Resident)

FirstNew(newPhotoPaths) ==
    SubSeq(NewFiles(newPhotoPaths), 1,
           IF Len(NewFiles(newPhotoPaths)) < PREFETCH_BATCH
           THEN Len(NewFiles(newPhotoPaths)) ELSE PREFETCH_BATCH)

C16_HeicDisabled ==
    /\ [](heicSupportCache # "true" =>
             /\ \A l \in loads : ~isHeicFile(l.path)
             /\ \A p \in Resident : ~isHeicFile(p))
    /\ [][(lastOp'.name = "initialize" /\ now' = now) =>
             /\ lastOp'.out = NoOutcome
             /\ heicSupportCache' \in {"true", "false"}
             /\ cache' = cache /\ loads' = loads]_vars
    /\ [][(lastOp'.name = "getPhoto" /\ now' = now
           /\ heicSupportCache # "true"
           /\ lastOp'.path \notin Resident
           /\ lastOp'.path \notin DOMAIN loadingPromises) =>
             IF isHeicFile(lastOp'.path)
             THEN /\ lastOp'.out = Rejected(0)
                  /\ loads' = loads /\ cache' = cache /\ nextId' = nextId
             ELSE /\ lastOp'.out = Pending(nextId)
                  /\ \E l \in loads' : l.id = nextId /\ l.path = lastOp'.path]_vars

\* A HEIC photo refused after the probe reported no support.
C16_Witness ==
    /\ lastOp.name = "getPhoto"
    /\ isHeicFile(lastOp.path)
    /\ lastOp.out = Rejected(0)
    /\ heicSupportCache = "false"

\* The photo at `index` throws 'HEIC support not available' without
\* suspending, so that the catch block moves on within the same step.
FailsAtOnce(index) ==
    getPhotoResult(Slideshow, photos[index + 1]).kind = "fail"

\* The index the slideshow reaches by skipping, from the one after
\* `index`, every photo that fails at once.
RECURSIVE NextDisplayable(_, _)
NextDisplayable(index, skips) ==
    LET next == (index + 1) % Len(photos)
    IN  IF skips >= Len(photos) \/ ~FailsAtOnce(next)
        THEN next
        ELSE NextDisplayable(next, skips + 1)

\* The load of the photo at the current index, awaited by the display,
\* fails in this step.
CurrentLoadFails ==
    \E l \in loads :
        /\ l.path = photos[currentIndex + 1]
        /\ \E i \in 1..Len(displayCalls) : displayCalls[i].load = l.id
        /\ SlideshowLoadSettles(l, FALSE)

\* The render surface rejects the resident handle of the photo at the
\* current index in this step.
CurrentProbeFails ==
    \E i \in 1..Len(cache) :
        /\ cache[i].path = photos[currentIndex + 1]
        /\ ProbeFails(cache[i].url)

\* C17: in sequential mode with two or more photos of which one is
\* displayable, a failure to load or to display the photo at the current
\* index moves the controller to the next index (past the photos that
\* fail at once), that is by at most N-1 skips to a photo it can show.
C17_FailureAdvancesToNext ==
    [][(/\ ~isRandomOrder
        /\ Len(photos) >= 2
        /\ \E i \in 0..(Len(photos) - 1) : photos[i + 1] \in Resident
        /\ CurrentLoadFails \/ CurrentProbeFails) =>
            /\ currentIndex' = NextDisplayable(currentIndex, 0)
            /\ ~hung']_vars

\* The epoch after the advances that selected `selected` one after the
\* other, from the epoch `epoch`: it starts afresh once every index of the
\* list has appeared in it.
RECURSIVE EpochAfter(_, _)
EpochAfter(epoch, selected) ==
    IF selected = <<>>
    THEN epoch
    ELSE EpochAfter(
             (IF epoch = 0..(Len(photos) - 1) THEN {} ELSE epoch)
                 \cup {Head(selected)},
             Tail(selected))

\* Every index of `selected` is a valid one that had not appeared in the
\* epoch when it was selected.
RECURSIVE NeverRepeats(_, _)
NeverRepeats(epoch, selected) ==
    \/ selected = <<>>
    \/ /\ Head(selected) \in 0..(Len(photos) - 1)
       /\ \/ epoch = 0..(Len(photos) - 1)
          \/ Head(selected) \notin epoch
       /\ NeverRepeats(EpochAfter(epoch, <<Head(selected)>>), Tail(selected))

\* C18: in random mode, while the list of N >= 2 photos stays the same,
\* an advance (next, previous, the timer, or the skip of a photo that
\* failed) never selects an index that the current epoch already holds;
\* an index comes again only after all N indices appeared and the epoch
\* started afresh.  The last index selected is the current one.
C18_NoRepeatWithinEpoch ==
    [][(/\ isRandomOrder /\ isRandomOrder'
        /\ Len(photos) >= 2
        /\ photos' = photos
        /\ selecting' = selecting
        /\ playedIndices \subseteq 0..(Len(photos) - 1)
        /\ draws' # <<>>) =>
            /\ NeverRepeats(playedIndices, draws')
            /\ playedIndices' = EpochAfter(playedIndices, draws')
            /\ currentIndex' = draws'[Len(draws')]]_vars

\* An advance over three photos that skipped the unsupported b.HEIC, the
\* last index missing from the epoch, and selected index 0 again in the
\* epoch that started then.
C18_Witness ==
    /\ isRandomOrder
    /\ Len(photos) = 3
    /\ draws = <<1, 0>>
    /\ playedIndices = {0}
    /\ currentIndex = 0

\* C19: when updatePhotoList([]) returns, whatever the controller was doing,
\* the photo list is empty, the slideshow is paused with no timer, the
\* controls are disabled, the welcome message is shown instead of the
\* photo, and the cache holds no entry, every blob handle it held having
\* been released.
C19_EmptyListGoesIdle ==
    [][UpdatePhotoList(<<>>) =>
          /\ photos' = <<>>
          /\ ~isPlaying'
          /\ slideInterval' = "null"
          /\ controlsDisabled'
          /\ welcomeDisplay' = "block"
          /\ currentPhotoDisplay' = "none"
          /\ cache' = <<>>
          /\ \A i \in 1..Len(cache) :
                StartsWithBlob(cache[i].url) =>
                    revoked'[cache[i].url.id] = revoked[cache[i].url.id] + 1]_vars

\* The watcher reported an empty folder while a converted HEIC photo was
\* on show: the session is idle and the photo's handle is released.
C19_Witness ==
    /\ watching
    /\ photos = <<>>
    /\ cache = <<>>
    /\ ~isPlaying
    /\ controlsDisabled
    /\ welcomeDisplay = "block"
    /\ currentPhotoDisplay = "none"
    /\ StartsWithBlob(currentPhotoSrc)
    /\ revoked[currentPhotoSrc.id] = 1

\* C20: whenever the photo list is not empty the current index is one of
\* its indices, in sequential and in random order; an updatePhotoList
\* that replaces a non-empty list by a non-empty list keeps the index if
\* the new list has it and otherwise sets it to the last index.
C20_IndexInBounds ==
    /\ [](photos # <<>> => currentIndex \in 0..(Len(photos) - 1))
    /\ [][\A newPhotos \in PrefixLists \ {<<>>} :
              (/\ photos # <<>>
               /\ photos' = newPhotos
               /\ probes' = probes /\ displayCalls' = displayCalls
               /\ isPlaying' = isPlaying /\ isRandomOrder' = isRandomOrder
               /\ UpdatePhotoList(newPhotos)) =>
                  currentIndex' = IF currentIndex < Len(newPhotos)
                                  THEN currentIndex
                                  ELSE Len(newPhotos) - 1]_vars

\* In random order the current index is always in playedIndices, except
\* after the list shrank below it and it was set to the last index.
C20_Witness ==
    /\ isRandomOrder
    /\ photos # <<>>
    /\ currentIndex = Len(photos) - 1
    /\ currentIndex \notin playedIndices

\* C21: whatever play, pause, interval, folder and photo-list commands
\* were given, there is a slide timer exactly when the controller is
\* playing, there is never more than one, and slideInterval holds its
\* handle; so once a pause ran no timer is left to start an advance.
C21_TimerIffPlaying ==
    /\ timers = (IF isPlaying THEN 1 ELSE 0)
    /\ (slideInterval = "timer") <=> isPlaying

\* Playing with one timer while a photo is still loading.
C21_Witness ==
    /\ isPlaying
    /\ timers = 1
    /\ slideInterval = "timer"
    /\ displayCalls # <<>>

\* (i + 1) mod N and (i - 1) mod N for the current list.
IndexAfter(i) == (i + 1) % Len(photos)
IndexBefore(i) == (i + Len(photos) - 1) % Len(photos)

\* n consecutive calls of nextPhoto.
RECURSIVE NextTimes(_, _)
NextTimes(c, n) == IF n = 0 THEN c ELSE NextTimes(nextPhoto(c, 0), n - 1)

\* C22 as stated: in sequential mode with N >= 1 photos, next leaves the
\* index at (i + 1) mod N and previous at (i - 1) mod N.
C22_NextPreviousModN ==
    [][(~isRandomOrder /\ Len(photos) >= 1) =>
          /\ NextPhoto => currentIndex' = IndexAfter(currentIndex)
          /\ PreviousPhoto => currentIndex' = IndexBefore(currentIndex)]_vars

\* C22, amended: in sequential mode with N >= 1 photos, next leaves the
\* index at (i + 1) mod N and previous at (i - 1) mod N unless the photo
\* there fails at once (an unsupported HEIC file), which the controller
\* skips; when no photo of the list fails at once, next followed by
\* previous restores the index and N consecutive next advances return to
\* the index they started from.
C22_NextPreviousModNUnlessSkipped ==
    /\ [][(~isRandomOrder /\ Len(photos) >= 1) =>
            /\ (NextPhoto /\ ~FailsAtOnce(IndexAfter(currentIndex))) =>
                  currentIndex' = IndexAfter(currentIndex)
            /\ (PreviousPhoto /\ ~FailsAtOnce(IndexBefore(currentIndex))) =>
                  currentIndex' = IndexBefore(currentIndex)]_vars
    /\ []((/\ ~isRandomOrder
           /\ Len(photos) >= 1
           /\ currentIndex < Len(photos)
           /\ \A i \in 0..(Len(photos) - 1) : ~FailsAtOnce(i)) =>
             /\ previousPhoto(nextPhoto(Slideshow, 0)).currentIndex
                    = currentIndex
             /\ NextTimes(Slideshow, Len(photos)).currentIndex
                    = currentIndex)

\* Three photos, all loadable, and the index has wrapped from 0 to the
\* last one or was advanced twice.
C22_Witness ==
    /\ ~isRandomOrder
    /\ Len(photos) = 3
    /\ currentIndex = 2
    /\ heicSupportCache = "true"

\* The handles the resident entries hold.
ResidentUrls == {cache[i].url : i \in 1..Len(cache)}

\* C23: a HEIC load whose file has no bytes fails with 'HEIC file is
\* empty' before convertHeic is called: no conversion request ever carries
\* an empty buffer, and the step that reads the empty buffer ends the load
\* as a failure with no request sent, no blob URL created and nothing
\* stored.
C23_EmptyFileFailsBeforeBridge ==
    /\ [](\A conv \in conversions : conv.byteLength > 0)
    /\ [][\A l \in loads, decoded \in BOOLEAN :
             ArrayBufferRead(l, 0, decoded) =>
                 /\ lastOp' = Op("loadHEICImage", l.path,
                                 <<"HEIC file is empty">>, Rejected(l.id), {})
                 /\ l.id \notin {m.id : m \in loads'}
                 /\ conversions' = conversions
                 /\ created' = created
                 /\ cache' = cache]_vars

\* The load of b.HEIC just failed on its empty file, no request was sent
\* and nothing is resident.
C23_Witness ==
    /\ lastOp.name = "loadHEICImage"
    /\ lastOp.list = <<"HEIC file is empty">>
    /\ lastOp.path \notin Resident
    /\ conversions = {}
    /\ created = {}

\* The conversion request of load id, as the main process holds it.
ConversionOf(convs, id) == CHOOSE conv \in convs : conv.id = id

\* C24: the conversion runs under a hard timeout.  When the timer fires
\* before libheif called back, the conversion is settled as failed, and
\* when that answer reaches the renderer the load ends as a failure with
\* its in-flight marker removed and nothing stored; a callback of libheif
\* that comes after the timeout changes neither the outcome nor the cache,
\* so no handle is ever made for a conversion that timed out.
C24_ConversionTimeout ==
    /\ [](\A conv \in conversions :
             conv.timer = "fired" =>
                 /\ conv.outcome = "fail"
                 /\ conv.id \notin created
                 /\ BlobUrl(conv.id) \notin ResidentUrls)
    /\ [][\A conv \in conversions :
             /\ ConversionTimeout(conv) =>
                   ConversionOf(conversions', conv.id).outcome = "fail"
             /\ (conv.timer = "fired" /\ ConvertReplies(conv)) =>
                   /\ conv.id \notin {m.id : m \in loads'}
                   /\ \A photoPath \in DOMAIN loadingPromises' :
                         loadingPromises'[photoPath] # conv.id
                   /\ lastOp'.out = Rejected(conv.id)
                   /\ cache' = cache
             /\ (conv.timer = "fired" /\
                 \E displayData \in BOOLEAN :
                     DisplayCallback(conv, displayData)) =>
                   /\ ConversionOf(conversions', conv.id).outcome
                          = conv.outcome
                   /\ UNCHANGED <<cache, loads, loadingPromises,
                                  created>>]_vars

\* A conversion timed out, its load failed in the renderer, and libheif
\* called back afterwards.
C24_Witness ==
    \E conv \in conversions :
        /\ conv.timer = "fired"
        /\ conv.calledBack
        /\ conv.delivered
        /\ lastOp.name = "loadHEICImage"
        /\ lastOp.out = Rejected(conv.id)
        /\ lastOp.path \notin Resident

\* str ends with the characters of suffix, upper and lower case taken as
\* the same.
EndsWithIgnoringCase(str, suffix) ==
    /\ Len(str) >= Len(suffix)
    /\ \A k \in 1..Len(suffix) :
          CharToLowerCase(str[Len(str) - Len(suffix) + k]) = suffix[k]

\* The entry has a name followed by a recognized image extension.
Recognized(file) ==
    \E ext \in IMAGE_EXTENSIONS :
        Len(file) > Len(ext) /\ EndsWithIgnoringCase(file, ext)

\* C25: getImageFiles returns exactly the entries of the folder whose
\* extension is a recognized image extension whatever its case, each once
\* and as the full path, in ascending lexical order; a folder that is
\* empty, missing or unreadable gives the empty list.
C25_GetImageFiles ==
    lastOp.name = "getImageFiles" =>
        LET out == lastOp.list
        IN  /\ Range(out) = {pathJoin(directory.name, directory.files[i]) :
                                i \in {j \in 1..Len(directory.files) :
                                          Recognized(directory.files[j])}}
            /\ \A i, j \in 1..Len(out) : i < j => StringLess(out[i], out[j])
            /\ (~directory.exists \/ ~directory.readable
                    \/ directory.files = <<>>) => out = <<>>

\* Of c.gif, B.PNG and a.jpg, listed in that order, d/B.PNG comes first.
C25_Witness ==
    /\ lastOp.name = "getImageFiles"
    /\ directory.files = <<<<"c", ".", "g", "i", "f">>,
                           <<"B", ".", "P", "N", "G">>,
                           <<"a", ".", "j", "p", "g">>>>
    /\ Len(lastOp.list) = 3
    /\ lastOp.list[1] = <<"d", "/", "B", ".", "P", "N", "G">>

\* C26: in the rotating queue no two entries have the same path, whatever
\* refresh, clear, getNextPhoto and load completions came before.
C26_QueuePathsDistinct ==
    \A i, j \in 1..Len(queue) : queue[i].path = queue[j].path => i = j

\* C27: refresh(newPaths) of the rotating queue completes normally, and
\* once every load has settled after it the queue holds no path that is
\* absent from newPaths, each evicted blob handle having been released
\* by the refresh.
C27_QueueRefreshConverges ==
    /\ [](lastOp.name = "refresh" => lastOp.out.kind # "fail")
    /\ []((refreshed # <<>> /\ loads = {}) =>
             \A i \in 1..Len(queue) : queue[i].path \in Range(refreshed))
    /\ [][lastOp'.name = "refresh" /\ lastOp' # lastOp =>
             \A i \in 1..Len(queue) :
                 (queue[i].path \notin Range(lastOp'.list)
                      /\ StartsWithBlob(queue[i].url)) =>
                     queue[i].url.id \in lastOp'.released]_vars

\* n consecutive calls of getNextPhoto: the queue they leave and the
\* handles they returned, in order.
RECURSIVE GetNextPhotoTimes(_, _, _)
GetNextPhotoTimes(w, n, urls) ==
    IF n = 0
    THEN [queue |-> w.queue, urls |-> urls]
    ELSE GetNextPhotoTimes(getNextPhoto(w), n - 1,
                           Append(urls, getNextPhotoResult(w)))

\* C29: getNextPhoto on a non-empty queue returns the handle of the head
\* entry and moves that entry to the tail, the other entries keeping their
\* order; on the empty queue it returns no handle and the queue stays
\* empty; N calls in a row on a queue of N entries return the handle of
\* each entry once, in queue order, and leave the queue as it was.
C29_GetNextPhotoRotates ==
    /\ [][lastOp'.name = "getNextPhoto" =>
             IF queue = <<>>
             THEN queue' = <<>> /\ lastOp'.out = NoOutcome
             ELSE /\ lastOp'.out = Resolved(queue[1].url)
                  /\ Len(queue') = Len(queue)
                  /\ queue'[Len(queue)] = queue[1]
                  /\ \A i \in 1..(Len(queue) - 1) : queue'[i] = queue[i + 1]]_vars
    /\ [](LET all == GetNextPhotoTimes(QueueWorld, Len(queue), <<>>)
          IN  /\ all.queue = queue
              /\ all.urls = [i \in 1..Len(queue) |-> Resolved(queue[i].url)])

\* A queue of three different photos after a call that returned c.png.
C29_Witness ==
    /\ lastOp.name = "getNextPhoto"
    /\ lastOp.out = Resolved(FileUrl("c.png"))
    /\ Len(queue) = 3
    /\ queue[3].path = "c.png"
    /\ queue[1].path = "a.jpg"
    /\ queue[2].path = "b.HEIC"

\* C28: in random mode an advance empties the played-indices set only at
\* a moment when every index 0..N-1 of the current photo list has been
\* selected since the set was last emptied, also when updatePhotoList has
\* made the list shorter or longer in between.  An advance emptied the
\* set if an index it held is gone after the step.
C28_EpochIsFullCycle ==
    [][(/\ isRandomOrder /\ isRandomOrder'
        /\ photos # <<>>
        /\ photos' = photos
        /\ selecting' = selecting
        /\ draws' # <<>>
        /\ ~(playedIndices \subseteq playedIndices')) =>
            \E k \in 0..(Len(draws') - 1) :
                0..(Len(photos) - 1) \subseteq
                    playedIndices \cup {draws'[i] : i \in 1..k}]_vars

\* C30: no blob handle leaks.  Once all loads have settled, every blob
\* URL that a successful HEIC load created is the handle of exactly one
\* resident entry or has been released.
C30_NoHandleLeak ==
    loads = {} =>
        \A h \in created :
            \/ Cardinality({i \in 1..Len(cache) : cache[i].url = BlobUrl(h)}) = 1
            \/ revoked[h] >= 1

\* C31: in the index-addressed controller the slideshow is playing only
\* while the photo list is non-empty: the play button or Space with an
\* empty list starts no timer and leaves the controller paused, and a
\* step that empties the list while playing ends paused with no timer.
C31_PlayingOnlyIfNonEmpty ==
    /\ [](isPlaying => photos # <<>>)
    /\ [][(photos = <<>> /\ photos' = <<>> /\ TogglePlayPause) =>
              /\ ~isPlaying'
              /\ timers' = timers
              /\ slideInterval' = slideInterval]_vars
    /\ [][(isPlaying /\ photos' = <<>>) =>
              /\ ~isPlaying'
              /\ timers' = 0
              /\ slideInterval' = "null"]_vars

\* The watched folder lost its last photo: the list is empty and the
\* controller is paused with no timer and its controls disabled.
C31_Witness ==
    /\ watching
    /\ photos = <<>>
    /\ ~isPlaying
    /\ timers = 0
    /\ slideInterval = "null"
    /\ controlsDisabled

\* C32: in the rotating-queue controller, while no folder is loaded and
\* the queue is empty, Space and ArrowRight leave the controller idle:
\* it is not playing, no slide timer exists, and no chain of nextPhoto
\* calls goes on (none reaches the length up to which chains are
\* followed).
C32_IdleKeysStayIdle ==
    (~watching /\ queue = <<>>) =>
        /\ ~isPlaying
        /\ timers = 0
        /\ slideInterval = "null"
        /\ \A probe \in BagToSet(probes) : probe.chain < MaxChain

====
